---- MODULE Spec2Model ----
(***************************************************************************)
(* A model of the element-wise engine of SuiteSparse:GraphBLAS             *)
(* (GB_ewise, GB_emult_template), of the kernel fallback of the dense      *)
(* accumulators and of the dot product, and of the semiring classifier     *)
(* GB_AxB_semiring_builtin.                                                *)
(*                                                                         *)
(* C arrays are functions over 0..n-1, so that every index of the model    *)
(* is the index of the source.                                             *)
(***************************************************************************)
EXTENDS Integers, Sequences, FiniteSets, TLC

VARIABLES
    \* GB_emult_template: the operands, the task list and the output arrays
    A, B, M, Mask_struct, TaskList, Cp, Ci, Cx,
    \* GB_emult_template: 0 idle, 1 and 2 the two phases, 3 finished
    phase,
    \* GB_emult_template: done[taskid], the task has run in this phase
    done,
    \* locations written and read by each task in the current phase
    writes, reads,
    \* counted[<<taskid, k>>]: the count phase 1 recorded for the vector
    counted,
    \* one record per vector (or slice) a task has finished in phase 2
    filled,
    \* GB_ewise: the matrices by name (C, A, B, M and the temporaries MT, AT,
    \* BT, T), the arguments of the call, the local variables, the place in
    \* the function, and a record of what the call has done
    heap, call, loc, pc, ghost

varsEmult == <<A, B, M, Mask_struct, TaskList, Cp, Ci, Cx, phase, done,
               writes, reads, counted, filled>>

varsEwise == <<heap, call, loc, pc, ghost>>

vars == <<varsEmult, varsEwise>>

-----------------------------------------------------------------------------
(* Bounds *)

\* length of the vectors of the small operands
VlenSmall == 3
\* number of vectors of the operands
NVec == 2

-----------------------------------------------------------------------------
(* Arrays and sparse matrices *)

\* the empty array
Empty == [q \in {} |-> 0]

Size(X) == Cardinality(DOMAIN X)

RECURSIVE SortedSeq(_, _, _)
SortedSeq(S, i, n) ==
    IF i >= n THEN <<>>
    ELSE (IF i \in S THEN <<i>> ELSE <<>>) \o SortedSeq(S, i + 1, n)

FromSeq(s) == [q \in 0..(Len(s) - 1) |-> s[q + 1]]

\* the elements of a subset S of 0..n-1 in increasing order, as an array
Sorted(S, n) == FromSeq(SortedSeq(S, 0, n))

Append0(X, v) == [q \in 0..Size(X) |-> IF q < Size(X) THEN X[q] ELSE v]

Concat(X, Y) ==
    [q \in 0..(Size(X) + Size(Y) - 1) |->
        IF q < Size(X) THEN X[q] ELSE Y[q - Size(X)]]

\* a sparse or hypersparse matrix held by column: [vlen, vdim, is_hyper,
\* nvec, h, p, i, x], with the entries of vector j the indices pat[j] and
\* the value of entry (i,j) val[<<i, j>>]
RECURSIVE MatrixFrom(_, _, _, _, _)
MatrixFrom(vlen, js, pat, val, acc) ==
    IF js = {} THEN acc
    ELSE LET j  == CHOOSE x \in js : \A y \in js : x <= y
             Ij == Sorted(pat[j], vlen)
             Xj == [q \in DOMAIN Ij |-> val[<<Ij[q], j>>]]
         IN  MatrixFrom(vlen, js \ {j}, pat, val,
                 [acc EXCEPT !.nvec = @ + 1,
                             !.h = Append0(@, j),
                             !.p = Append0(@, Size(acc.i) + Size(Ij)),
                             !.i = Concat(@, Ij),
                             !.x = Concat(@, Xj)])

Matrix(vlen, vdim, is_hyper, pat, val) ==
    MatrixFrom(vlen,
        IF is_hyper THEN {j \in 0..(vdim - 1) : pat[j] # {}} ELSE 0..(vdim - 1),
        pat, val,
        [vlen |-> vlen, vdim |-> vdim, is_hyper |-> is_hyper, nvec |-> 0,
         h |-> Empty, p |-> [q \in {0} |-> 0], i |-> Empty, x |-> Empty])

\* no matrix (a NULL mask)
NoMatrix == [vlen |-> 0, vdim |-> 0, is_hyper |-> FALSE, nvec |-> -1,
             h |-> Empty, p |-> Empty, i |-> Empty, x |-> Empty]

IsNull(X) == X.nvec = -1

\* the position of vector j in X, or -1
VectorOf(X, j) ==
    IF ~X.is_hyper THEN j
    ELSE IF \E k \in DOMAIN X.h : X.h[k] = j
         THEN CHOOSE k \in DOMAIN X.h : X.h[k] = j
         ELSE -1

\* the position of entry (i,j) in X.i and X.x, or -1
EntryOf(X, i, j) ==
    LET k == VectorOf(X, j) IN
    IF k < 0 THEN -1
    ELSE IF \E q \in X.p[k]..(X.p[k + 1] - 1) : X.i[q] = i
         THEN CHOOSE q \in X.p[k]..(X.p[k + 1] - 1) : X.i[q] = i
         ELSE -1

-----------------------------------------------------------------------------
(* GB_emult: what the symbolic phase and the task slicer hand to the       *)
(* template                                                                *)

\* the operand whose hyperlist C shares (Ch is a shallow copy of it), or
\* "none" when Ch is NULL: C is held as the sparsest of its operands
ChSource ==
    LET H == {n \in {"A", "B", "M"} :
                 /\ (n = "A" => A.is_hyper) /\ (n = "B" => B.is_hyper)
                 /\ (n = "M" => (~IsNull(M) /\ M.is_hyper))}
        Of(n) == IF n = "A" THEN A ELSE IF n = "B" THEN B ELSE M
        Rank(n) == IF n = "A" THEN 0 ELSE IF n = "B" THEN 1 ELSE 2
    IN  IF H = {} THEN "none"
        ELSE CHOOSE n \in H : \A n2 \in H :
                 \/ Of(n).nvec < Of(n2).nvec
                 \/ (Of(n).nvec = Of(n2).nvec /\ Rank(n) <= Rank(n2))

ChMatrix == IF ChSource = "A" THEN A ELSE IF ChSource = "B" THEN B ELSE M

Cnvec == IF ChSource = "none" THEN A.vdim ELSE ChMatrix.nvec

\* GBH (Ch, k)
GBH_Ch(k) == IF ChSource = "none" THEN k ELSE ChMatrix.h[k]

\* the index of vector Ch [k] in X: the test (Ch == Xh), then C_to_X
KOf(X, name, k) ==
    IF (ChSource = name) \/ (ChSource = "none" /\ ~X.is_hyper) THEN k
    ELSE IF ~X.is_hyper THEN GBH_Ch(k)
    ELSE VectorOf(X, GBH_Ch(k))

\* the first position of vector kX of X whose index is at least ilo
SliceStart(X, kX, ilo) ==
    IF kX < 0 THEN -1
    ELSE X.p[kX] +
         Cardinality({q \in X.p[kX]..(X.p[kX + 1] - 1) : X.i[q] < ilo})

CoarseTask(kfirst, klast) ==
    [kfirst |-> kfirst, klast |-> klast, len |-> 0, pC |-> 0,
     pA |-> -1, pA_end |-> -1, pB |-> -1, pB_end |-> -1,
     pM |-> -1, pM_end |-> -1]

\* a fine task: the entries of vector k with index in ilo..ihi-1
FineTask(k, ilo, ihi) ==
    LET kA == KOf(A, "A", k)
        kB == KOf(B, "B", k)
        kM == IF IsNull(M) THEN -1 ELSE KOf(M, "M", k)
    IN  [kfirst |-> k, klast |-> -1, len |-> ihi - ilo, pC |-> 0,
         pA |-> SliceStart(A, kA, ilo), pA_end |-> SliceStart(A, kA, ihi),
         pB |-> SliceStart(B, kB, ilo), pB_end |-> SliceStart(B, kB, ihi),
         pM |-> SliceStart(M, kM, ilo), pM_end |-> SliceStart(M, kM, ihi)]

\* the last entry of the task list, which only holds pC
EndTask == CoarseTask(0, 0)

Tasks1(t0) == [t \in 0..1 |-> IF t = 0 THEN t0 ELSE EndTask]

\* the task lists the slicer may produce: no task when C has no vector,
\* one coarse task, one coarse task per vector, or vector 0 cut in two
\* fine tasks at index c and followed by a coarse task for the others
OneTask ==
    IF Cnvec = 0 THEN [t \in {0} |-> EndTask]
    ELSE Tasks1(CoarseTask(0, Cnvec - 1))

TaskLists ==
    IF Cnvec = 0 THEN {OneTask}
    ELSE {OneTask}
         \cup {[t \in 0..Cnvec |->
                  IF t < Cnvec THEN CoarseTask(t, t) ELSE EndTask]}
         \cup {[t \in 0..(IF Cnvec > 1 THEN 3 ELSE 2) |->
                  IF t = 0 THEN FineTask(0, 0, c)
                  ELSE IF t = 1 THEN FineTask(0, c, A.vlen)
                  ELSE IF t = 2 /\ Cnvec > 1 THEN CoarseTask(1, Cnvec - 1)
                  ELSE EndTask] : c \in {1, A.vlen \div 2, A.vlen - 1}}

ntasks == Size(TaskList) - 1

-----------------------------------------------------------------------------
(* GB_emult_template *)

\* how many times denser one vector must be for the binary search
GB_MUCH_DENSER == 32

\* GB_BINOP of GB_binop__rdiv_fc64: z = GB_FC64_div (y, x)
GB_FC64_div(x, y) == <<"div", x, y>>
GB_BINOP(x, y) == GB_FC64_div(y, x)

\* GB_mcast (Mx, pM, msize), with Mx NULL for a structural mask
GB_mcast(pM) == IF Mask_struct THEN TRUE ELSE M.x[pM] # 0

\* GB_BINARY_SEARCH (i, X, pleft, pright, found): X [pleft..pright] is
\* searched for i, and pleft is left at the place the search ended
RECURSIVE GB_TRIM_BINARY_SEARCH(_, _, _, _)
GB_TRIM_BINARY_SEARCH(i, X, pleft, pright) ==
    IF pleft < pright
    THEN LET pmiddle == (pleft + pright) \div 2 IN
         IF X[pmiddle] < i
         THEN GB_TRIM_BINARY_SEARCH(i, X, pmiddle + 1, pright)
         ELSE GB_TRIM_BINARY_SEARCH(i, X, pleft, pmiddle)
    ELSE [pleft |-> pleft, pright |-> pright]

GB_BINARY_SEARCH(i, X, pleft, pright) ==
    LET r == GB_TRIM_BINARY_SEARCH(i, X, pleft, pright) IN
    [pleft |-> r.pleft,
     found |-> (r.pleft = r.pright /\ X[r.pleft] = i)]

\* the task descriptor and the slices of A(:,j), B(:,j) and M(:,j) that
\* task taskid handles for the kth vector of C; kA, kB and kM are the
\* places of the vector in A, B and M
GetSlices(taskid, k, kA, kB, kM) ==
    LET fine_task == TaskList[taskid].klast = -1
        len       == IF fine_task THEN TaskList[taskid].len ELSE A.vlen
        pA        == IF fine_task THEN TaskList[taskid].pA
                     ELSE IF kA >= 0 THEN A.p[kA] ELSE -1
        pA_end    == IF fine_task THEN TaskList[taskid].pA_end
                     ELSE IF kA >= 0 THEN A.p[kA + 1] ELSE -1
        pB        == IF fine_task THEN TaskList[taskid].pB
                     ELSE IF kB >= 0 THEN B.p[kB] ELSE -1
        pB_end    == IF fine_task THEN TaskList[taskid].pB_end
                     ELSE IF kB >= 0 THEN B.p[kB + 1] ELSE -1
    IN  [j |-> GBH_Ch(k), fine_task |-> fine_task, len |-> len,
         pA |-> pA, pA_end |-> pA_end, ajnz |-> pA_end - pA,
         adense |-> (pA_end - pA = len), pA_start |-> pA,
         iA_first |-> IF pA_end - pA > 0 THEN A.i[pA] ELSE -1,
         iA_last  |-> IF pA_end - pA > 0 THEN A.i[pA_end - 1] ELSE -1,
         pB |-> pB, pB_end |-> pB_end, bjnz |-> pB_end - pB,
         bdense |-> (pB_end - pB = len), pB_start |-> pB,
         iB_first |-> IF pB_end - pB > 0 THEN B.i[pB] ELSE -1,
         iB_last  |-> IF pB_end - pB > 0 THEN B.i[pB_end - 1] ELSE -1,
         pM |-> IF fine_task THEN TaskList[taskid].pM
                ELSE IF kM >= 0 THEN M.p[kM] ELSE -1,
         pM_end |-> IF fine_task THEN TaskList[taskid].pM_end
                    ELSE IF kM >= 0 THEN M.p[kM + 1] ELSE -1]

GetVector(taskid, k) ==
    GetSlices(taskid, k, KOf(A, "A", k), KOf(B, "B", k),
              IF IsNull(M) THEN -1 ELSE KOf(M, "M", k))

\* the branch of the template that handles the vector
Branch(v) ==
    IF ~IsNull(M) THEN "mask"
    ELSE IF v.adense /\ v.bdense THEN "dense"
    ELSE IF v.adense THEN "adense"
    ELSE IF v.bdense THEN "bdense"
    ELSE IF v.ajnz > GB_MUCH_DENSER * v.bjnz THEN "searchA"
    ELSE IF v.bjnz > GB_MUCH_DENSER * v.ajnz THEN "searchB"
    ELSE "merge"

\* the branches that write at pC + p and leave pC as it is
DirectBranches == {"dense", "adense", "bdense"}

\* An entry the template finds: the index i and the places of A(i,j) and
\* B(i,j)
Found(i, pA, pB) == [i |-> i, pA |-> pA, pB |-> pB]

\* A(:,j) is much denser than B(:,j): each B(i,j) is searched in A(:,j)
RECURSIVE SearchA(_, _, _)
SearchA(v, pA, pB) ==
    IF pB >= v.pB_end THEN <<>>
    ELSE LET i == B.i[pB]
             r == GB_BINARY_SEARCH(i, A.i, pA, v.pA_end - 1)
         IN  (IF r.found THEN <<Found(i, r.pleft, pB)>> ELSE <<>>)
             \o SearchA(v, r.pleft, pB + 1)

\* B(:,j) is much denser than A(:,j): each A(i,j) is searched in B(:,j)
RECURSIVE SearchB(_, _, _)
SearchB(v, pA, pB) ==
    IF pA >= v.pA_end THEN <<>>
    ELSE LET i == A.i[pA]
             r == GB_BINARY_SEARCH(i, B.i, pB, v.pB_end - 1)
         IN  (IF r.found THEN <<Found(i, pA, r.pleft)>> ELSE <<>>)
             \o SearchB(v, pA + 1, r.pleft)

\* a scan that advances both sides when A is behind
RECURSIVE MergeSkip(_, _, _)
MergeSkip(v, pA, pB) ==
    IF ~(pA < v.pA_end /\ pB < v.pB_end) THEN <<>>
    ELSE IF A.i[pA] < B.i[pB] THEN MergeSkip(v, pA + 1, pB + 1)
    ELSE IF B.i[pB] < A.i[pA] THEN MergeSkip(v, pA, pB + 1)
    ELSE <<Found(B.i[pB], pA, pB)>> \o MergeSkip(v, pA + 1, pB + 1)

\* a scan that gives the entries it finds last first
RECURSIVE MergeBackwards(_, _, _)
MergeBackwards(v, pA, pB) ==
    IF ~(pA < v.pA_end /\ pB < v.pB_end) THEN <<>>
    ELSE IF A.i[pA] < B.i[pB] THEN MergeBackwards(v, pA + 1, pB)
    ELSE IF B.i[pB] < A.i[pA] THEN MergeBackwards(v, pA, pB + 1)
    ELSE MergeBackwards(v, pA + 1, pB + 1) \o <<Found(B.i[pB], pA, pB)>>

\* linear-time scan of A(:,j) and B(:,j)
RECURSIVE Merge(_, _, _)
Merge(v, pA, pB) ==
    IF ~(pA < v.pA_end /\ pB < v.pB_end) THEN <<>>
    ELSE LET iA == A.i[pA]
             iB == B.i[pB]
         IN  IF iA < iB THEN Merge(v, pA + 1, pB)
             ELSE IF iB < iA THEN Merge(v, pA, pB + 1)
             ELSE <<Found(iB, pA, pB)>> \o Merge(v, pA + 1, pB + 1)

\* the lookup of index i in a vector of X (A or B) that starts at p_start
\* with index i_first: direct when the vector is dense, else a search
\* from pleft
Lookup(i, X, is_dense, p_start, i_first, pleft, p_end) ==
    IF is_dense THEN [pleft |-> p_start + i - i_first, found |-> TRUE]
    ELSE GB_BINARY_SEARCH(i, X, pleft, p_end - 1)

\* the mask is present: each M(i,j) is looked up in A(:,j) and B(:,j)
RECURSIVE MaskLoop(_, _, _, _)
MaskEntryB(v, pM, i, ra, rb) ==
    (IF rb.found THEN <<Found(i, ra.pleft, rb.pleft)>> ELSE <<>>)
    \o MaskLoop(v, pM + 1, ra.pleft, rb.pleft)

MaskEntry(v, pM, i, ra, pB) ==
    IF ~ra.found THEN MaskLoop(v, pM + 1, ra.pleft, pB)
    ELSE MaskEntryB(v, pM, i, ra,
             Lookup(i, B.i, v.bdense, v.pB_start, v.iB_first, pB, v.pB_end))

MaskLoop(v, pM, pA, pB) ==
    IF pM >= v.pM_end THEN <<>>
    ELSE IF ~GB_mcast(pM) THEN MaskLoop(v, pM + 1, pA, pB)
    ELSE MaskEntry(v, pM, M.i[pM],
             Lookup(M.i[pM], A.i, v.adense, v.pA_start, v.iA_first, pA,
                    v.pA_end),
             pB)

\* the entries the branch b finds for the vector, in the order it finds
\* them; in the dense branches p runs over the sparser side
EntriesOf(b, v) ==
    IF b = "dense"
    THEN [p \in 1..v.ajnz |-> Found(p - 1 + v.iA_first, v.pA + p - 1,
                                    v.pB + p - 1)]
    ELSE IF b = "adense"
    THEN [p \in 1..v.bjnz |->
             Found(B.i[v.pB + p - 1],
                   v.pA + B.i[v.pB + p - 1] - v.iA_first, v.pB + p - 1)]
    ELSE IF b = "bdense"
    THEN [p \in 1..v.ajnz |->
             Found(A.i[v.pA + p - 1], v.pA + p - 1,
                   v.pB + A.i[v.pA + p - 1] - v.iB_first)]
    ELSE IF b = "searchA" THEN SearchA(v, v.pA, v.pB)
    ELSE IF b = "searchB" THEN SearchB(v, v.pA, v.pB)
    ELSE IF b = "merge" THEN Merge(v, v.pA, v.pB)
    ELSE MaskLoop(v, v.pM, v.pA, v.pB)

\* phase 1: the two shortcuts, then the count of the branch
Phase1Shortcut(v) ==
    \/ v.ajnz = 0 \/ v.bjnz = 0
    \/ v.iA_last < v.iB_first \/ v.iB_last < v.iA_first

\* a count that takes ajnz for bjnz where only A(:,j) is dense
CountOfA(b, v) ==
    IF b \in DirectBranches THEN v.ajnz ELSE Len(EntriesOf(b, v))

CountOf(b, v) ==
    IF b = "dense" THEN v.ajnz
    ELSE IF b = "adense" THEN v.bjnz
    ELSE IF b = "bdense" THEN v.ajnz
    ELSE Len(EntriesOf(b, v))

Phase1Count(v) == IF Phase1Shortcut(v) THEN 0 ELSE CountOf(Branch(v), v)

\* phase 2 for one vector: pC and pC_end as the task reads them, E the
\* entries found (none when cjnz is zero and the vector is skipped), W the
\* writes to Ci and Cx, and pC as the branch leaves it
FillRecord(taskid, k, pC, pC_end, b, E) ==
    [taskid |-> taskid, k |-> k, pC_start |-> pC, pC_end |-> pC_end,
     skipped |-> (pC_end - pC = 0), branch |-> b,
     W |-> [n \in 1..Len(E) |->
               [at |-> pC + n - 1, i |-> E[n].i,
                x |-> GB_BINOP(A.x[E[n].pA], B.x[E[n].pB])]],
     pC |-> IF b \in DirectBranches THEN pC ELSE pC + Len(E)]

FillSlices(taskid, k, v, pC, pC_end) ==
    FillRecord(taskid, k, pC, pC_end, Branch(v),
               IF pC_end - pC = 0 THEN <<>> ELSE EntriesOf(Branch(v), v))

FillVector(taskid, k) ==
    FillSlices(taskid, k, GetVector(taskid, k),
               IF TaskList[taskid].klast = -1 THEN TaskList[taskid].pC
               ELSE Cp[k],
               IF TaskList[taskid].klast = -1 THEN TaskList[taskid + 1].pC
               ELSE Cp[k + 1])

-----------------------------------------------------------------------------
(* The two phases, one task at a time *)

\* the vectors task taskid loops over
LastVector(taskid) ==
    IF TaskList[taskid].klast = -1 THEN TaskList[taskid].kfirst
    ELSE TaskList[taskid].klast

VectorsOf(taskid) == TaskList[taskid].kfirst..LastVector(taskid)

TaskField(taskid, f) == <<"TaskList", taskid, f>>

\* the fields of the task list a task reads in either phase
DescriptorReads(taskid) ==
    {TaskField(taskid, "kfirst"), TaskField(taskid, "klast")}
    \cup (IF TaskList[taskid].klast = -1
          THEN {TaskField(taskid, f) :
                   f \in {"len", "pA", "pA_end", "pB", "pB_end"}
                         \cup (IF IsNull(M) THEN {} ELSE {"pM", "pM_end"})}
          ELSE {})

Log(log, taskid, locs) == [log EXCEPT ![taskid] = @ \cup locs]

\* an end of the loop where every task leaves its count in Cp [k]
Phase1FinalShared(taskid, cjnz) ==
    /\ Cp' = [k \in DOMAIN Cp |->
                 IF k \in VectorsOf(taskid) THEN cjnz[k] ELSE Cp[k]]
    /\ TaskList' = TaskList
    /\ writes' = Log(writes, taskid, {<<"Cp", k>> : k \in VectorsOf(taskid)})
    /\ counted' = [c \in DOMAIN counted \cup ({taskid} \X VectorsOf(taskid))
                      |-> IF c[1] = taskid THEN cjnz[c[2]] ELSE counted[c]]

\* phase 1, the end of the loop of a task: cjnz[k] is the count of
\* vector k.  A fine task leaves its count in TaskList [taskid].pC, a
\* coarse task in Cp [k].
Phase1Final(taskid, cjnz) ==
    /\ IF TaskList[taskid].klast = -1
       THEN /\ TaskList' = [TaskList EXCEPT
                   ![taskid].pC = cjnz[TaskList[taskid].kfirst]]
            /\ Cp' = Cp
            /\ writes' = Log(writes, taskid, {TaskField(taskid, "pC")})
       ELSE /\ Cp' = [k \in DOMAIN Cp |->
                         IF k \in VectorsOf(taskid) THEN cjnz[k] ELSE Cp[k]]
            /\ TaskList' = TaskList
            /\ writes' = Log(writes, taskid,
                             {<<"Cp", k>> : k \in VectorsOf(taskid)})
    /\ counted' = [c \in DOMAIN counted \cup ({taskid} \X VectorsOf(taskid))
                      |-> IF c[1] = taskid THEN cjnz[c[2]] ELSE counted[c]]

\* phase 1, task taskid: the loop over its vectors
Phase1Task(taskid) ==
    /\ phase = 1
    /\ ~done[taskid]
    /\ Phase1Final(taskid, [k \in VectorsOf(taskid) |->
                               Phase1Count(GetVector(taskid, k))])
    /\ reads' = Log(reads, taskid, DescriptorReads(taskid))
    /\ done' = [done EXCEPT ![taskid] = TRUE]
    /\ UNCHANGED <<A, B, M, Mask_struct, Ci, Cx, phase, filled>>
    /\ UNCHANGED varsEwise

\* GB_task_cumsum: the counts of the fine tasks of a vector are summed in
\* Cp [k], Cp becomes its cumulative sum, and each task gets its pC
RECURSIVE FineSum(_, _, _)
FineSum(taskid, TL, P) ==
    IF taskid >= Size(TL) - 1 THEN [TaskList |-> TL, Cp |-> P]
    ELSE IF TL[taskid].klast = -1
    THEN FineSum(taskid + 1,
                 [TL EXCEPT ![taskid].pC = P[TL[taskid].kfirst]],
                 [P EXCEPT ![TL[taskid].kfirst] = @ + TL[taskid].pC])
    ELSE FineSum(taskid + 1, TL, P)

RECURSIVE SumTo(_, _)
SumTo(P, k) == IF k = 0 THEN 0 ELSE P[k - 1] + SumTo(P, k - 1)

GB_cumsum(P) == [k \in DOMAIN P |-> SumTo(P, k)]

TaskStarts(TL, fineTL, S) ==
    [Cp |-> S,
     TaskList |->
        [taskid \in DOMAIN TL |->
            IF taskid = Size(TL) - 1
            THEN [TL[taskid] EXCEPT !.pC = S[Size(S) - 1]]
            ELSE IF TL[taskid].klast = -1
            THEN [fineTL[taskid] EXCEPT !.pC = @ + S[TL[taskid].kfirst]]
            ELSE [TL[taskid] EXCEPT !.pC = S[TL[taskid].kfirst]]]]

GB_task_cumsum(TL, P) ==
    TaskStarts(TL, FineSum(0, TL, P).TaskList, GB_cumsum(FineSum(0, TL, P).Cp))

AllDone == \A taskid \in DOMAIN done : done[taskid]

\* the arrays of C are allocated with room for cnz entries
AllocateC(cnz) ==
    /\ Ci' = [q \in 0..(cnz - 1) |-> -1]
    /\ Cx' = [q \in 0..(cnz - 1) |-> <<>>]

CumsumResult(r) ==
    /\ Cp' = r.Cp
    /\ TaskList' = r.TaskList
    /\ AllocateC(r.Cp[Size(r.Cp) - 1])

\* the end of phase 1: every task has finished; Cp is summed, Ci and Cx
\* are allocated and phase 2 starts
TaskCumsum ==
    /\ phase = 1
    /\ AllDone
    /\ CumsumResult(GB_task_cumsum(TaskList, Cp))
    /\ phase' = 2
    /\ done' = [taskid \in DOMAIN done |-> FALSE]
    /\ writes' = [taskid \in DOMAIN writes |-> {}]
    /\ reads' = [taskid \in DOMAIN reads |-> {}]
    /\ UNCHANGED <<A, B, M, Mask_struct, counted, filled>>
    /\ UNCHANGED varsEwise

\* the writes W applied in order to the array X, field f of each
RECURSIVE Store(_, _, _)
Store(X, W, f) ==
    IF W = <<>> THEN X
    ELSE Store(IF Head(W).at \in DOMAIN X
               THEN [X EXCEPT ![Head(W).at] = Head(W)[f]] ELSE X,
               Tail(W), f)

\* the vectors k..klast of the task in phase 2, in the order of its loop
RECURSIVE FillTask(_, _)
FillTask(taskid, k) ==
    IF k > LastVector(taskid) THEN <<>>
    ELSE <<FillVector(taskid, k)>> \o FillTask(taskid, k + 1)

RECURSIVE WritesOf(_)
WritesOf(F) == IF F = <<>> THEN <<>> ELSE Head(F).W \o WritesOf(Tail(F))

Locations(W) ==
    {<<"Ci", W[n].at>> : n \in 1..Len(W)}
    \cup {<<"Cx", W[n].at>> : n \in 1..Len(W)}

Phase2Store(taskid, W) ==
    /\ Ci' = Store(Ci, W, "i")
    /\ Cx' = Store(Cx, W, "x")
    /\ writes' = Log(writes, taskid, Locations(W))

Phase2Final(taskid, F) ==
    /\ Phase2Store(taskid, WritesOf(F))
    /\ filled' = filled \cup {F[n] : n \in 1..Len(F)}

\* phase 2, task taskid: the loop over its vectors
Phase2Task(taskid) ==
    /\ phase = 2
    /\ ~done[taskid]
    /\ Phase2Final(taskid, FillTask(taskid, TaskList[taskid].kfirst))
    /\ reads' = Log(reads, taskid,
           DescriptorReads(taskid)
           \cup (IF TaskList[taskid].klast = -1
                 THEN {TaskField(taskid, "pC"), TaskField(taskid + 1, "pC")}
                 ELSE UNION {{<<"Cp", k>>, <<"Cp", k + 1>>} :
                                k \in VectorsOf(taskid)}))
    /\ done' = [done EXCEPT ![taskid] = TRUE]
    /\ UNCHANGED <<A, B, M, Mask_struct, TaskList, Cp, phase, counted>>
    /\ UNCHANGED varsEwise

\* the end of phase 2: every task has finished
EmultDone ==
    /\ phase = 2
    /\ AllDone
    /\ phase' = 3
    /\ UNCHANGED <<A, B, M, Mask_struct, TaskList, Cp, Ci, Cx, done,
                   writes, reads, counted, filled>>
    /\ UNCHANGED varsEwise

-----------------------------------------------------------------------------
(* GB_ewise: matrices as objects, and what GB_ewise calls *)

\* A matrix: e maps the cells <<i, j>> that hold an entry (index i of
\* vector j) to its value, pend the cells with a pending tuple.  status is
\* "none" (no such matrix), "live", "freed" or "moved" (its content was
\* transplanted into another matrix and only its header freed).
Object(status, type, vlen, vdim, is_csc, e, pend) ==
    [status |-> status, type |-> type, vlen |-> vlen, vdim |-> vdim,
     is_csc |-> is_csc, e |-> e, pend |-> pend]

NoObject == Object("none", "NULL", 0, 0, TRUE, Empty, Empty)

\* the object a reference names, for a reference that may be NULL
Deref(h, ref) == IF ref = "NULL" THEN NoObject ELSE h[ref]

GB_NROWS(X) == IF X.is_csc THEN X.vlen ELSE X.vdim
GB_NCOLS(X) == IF X.is_csc THEN X.vdim ELSE X.vlen

Swap(s) == <<s[2], s[1]>>

\* the value of an entry of an input matrix; nz: the value is not zero
In(name, r, c, nz) == <<"in", name, <<r, c>>, nz>>

\* built-in types can be typecast to each other, a user-defined type only
\* to itself
GB_Type_compatible(a, b) == (a = b) \/ ("udt" \notin {a, b})

\* typecast of v from one type to another: a copy when they are the same
GB_cast(v, to, from) == IF to = from THEN v ELSE <<"cast", to, v>>

\* a value as a boolean (the value of a mask entry)
Truth(v) == IF v[1] = "cast" THEN v[3][4] ELSE v[4]

\* GB_Matrix_wait: the pending tuples are assembled
GB_Matrix_wait(X) ==
    [X EXCEPT !.e = [s \in DOMAIN X.e \cup DOMAIN X.pend |->
                        IF s \in DOMAIN X.pend THEN X.pend[s] ELSE X.e[s]],
              !.pend = Empty]

GB_NNZ_UPPER_BOUND(X) == Cardinality(DOMAIN X.e) + Cardinality(DOMAIN X.pend)

GB_is_dense(X) == Cardinality(DOMAIN X.e) = X.vlen * X.vdim

\* GB_transpose (&T, type, is_csc, X, ...): T = (type) X', held as is_csc
GB_transpose(X, type, is_csc) ==
    Object("live", IF type = "NULL" THEN X.type ELSE type, X.vdim, X.vlen,
           is_csc,
           [s \in {Swap(t) : t \in DOMAIN X.e} |->
               GB_cast(X.e[Swap(s)], IF type = "NULL" THEN X.type ELSE type,
                       X.type)],
           Empty)

\* z = op (x, y) at cell s; a positional operator gives the index
ApplyOp(op, x, y, s) ==
    IF op.opcode = "FIRSTI" THEN <<"pos", s[1]>>
    ELSE IF op.opcode = "FIRSTJ" THEN <<"pos", s[2]>>
    ELSE <<op.opcode, x, y>>

GB_OPCODE_IS_POSITIONAL(opcode) == opcode \in {"FIRSTI", "FIRSTJ"}

GB_positional_binop_ijflip(op) ==
    [op EXCEPT !.opcode = IF @ = "FIRSTI" THEN "FIRSTJ"
                          ELSE IF @ = "FIRSTJ" THEN "FIRSTI" ELSE @]

NoOp == [opcode |-> "NULL", xtype |-> "NULL", ytype |-> "NULL",
         ztype |-> "NULL", faulty |-> FALSE]

\* the mask Mo at cell s
MaskAt(Mo, s, Mstruct, Mcomp) ==
    (s \in DOMAIN Mo.e /\ (Mstruct \/ Truth(Mo.e[s]))) # Mcomp

\* GB_add (add) and GB_emult: T = A1+B1 or A1.*B1, held as is_csc, with
\* the mask Mo applied when apply is set
GB_add_emult(add, is_csc, Mo, apply, Mstruct, Mcomp, A1, B1, op) ==
    Object("live", op.ztype, A1.vlen, A1.vdim, is_csc,
           [s \in {t \in (IF add THEN DOMAIN A1.e \cup DOMAIN B1.e
                          ELSE DOMAIN A1.e \cap DOMAIN B1.e) :
                      apply => MaskAt(Mo, t, Mstruct, Mcomp)} |->
               IF s \in DOMAIN A1.e /\ s \in DOMAIN B1.e
               THEN ApplyOp(op, GB_cast(A1.e[s], op.xtype, A1.type),
                            GB_cast(B1.e[s], op.ytype, B1.type), s)
               ELSE IF s \in DOMAIN A1.e
               THEN GB_cast(A1.e[s], op.ztype, A1.type)
               ELSE GB_cast(B1.e[s], op.ztype, B1.type)],
           Empty)

\* the masked accumulation of the entries Te (of type ttype) into the
\* assembled C, with the mask Mc held as C is (status "none": no mask)
AccumMask(Cw, Mc, accum, Te, ttype, C_replace, Mcomp, Mstruct) ==
    LET m(s) == IF Mc.status = "none" THEN ~Mcomp
                ELSE MaskAt(Mc, s, Mstruct, Mcomp)
    IN  [Cw EXCEPT !.e =
            [s \in {t \in DOMAIN Te \cup DOMAIN Cw.e :
                       IF m(t)
                       THEN t \in DOMAIN Te
                            \/ (accum.opcode # "NULL" /\ t \in DOMAIN Cw.e)
                       ELSE ~C_replace /\ t \in DOMAIN Cw.e} |->
                IF ~m(s) \/ s \notin DOMAIN Te THEN Cw.e[s]
                ELSE IF accum.opcode = "NULL" \/ s \notin DOMAIN Cw.e
                THEN GB_cast(Te[s], Cw.type, ttype)
                ELSE GB_cast(ApplyOp(accum,
                                     GB_cast(Cw.e[s], accum.xtype, Cw.type),
                                     GB_cast(Te[s], accum.ytype, ttype), s),
                             Cw.type, accum.ztype)]]

\* GB_accum_mask (C, M, MT, accum, &T, ...): C<M> = accum (C,T).  T is
\* transposed if it is not held as C is; the mask is M if it is held as C
\* is, else MT if the caller has it, else the transpose of M.
GB_accum_mask(Co, Mo, MTo, accum, To, C_replace, Mcomp, Mstruct) ==
    AccumMask(GB_Matrix_wait(Co),
              IF Mo.status = "none" \/ Mo.is_csc = Co.is_csc THEN Mo
              ELSE IF MTo.status = "live" THEN MTo
              ELSE GB_transpose(Mo, "bool", Co.is_csc),
              accum,
              IF To.is_csc = Co.is_csc THEN To.e
              ELSE GB_transpose(To, "NULL", Co.is_csc).e,
              To.type, C_replace, Mcomp, Mstruct)

\* GB_transplant_conform (C, C->type, &T): C = (ctype) T; the vectors of
\* T become those of C, whose type and format do not change
GB_transplant_conform(Co, To) ==
    [Co EXCEPT !.vlen = To.vlen, !.vdim = To.vdim,
               !.e = [s \in DOMAIN To.e |-> GB_cast(To.e[s], Co.type, To.type)],
               !.pend = Empty]

\* GB_compatible (C->type, C, M, accum, T_type): the domains of accum, the
\* type and the dimensions of the mask
GB_compatible(Co, Mo, accum, T_type) ==
    IF accum.opcode # "NULL"
       /\ ~(/\ GB_Type_compatible(Co.type, accum.xtype)
            /\ GB_Type_compatible(T_type, accum.ytype)
            /\ GB_Type_compatible(Co.type, accum.ztype))
    THEN "GrB_DOMAIN_MISMATCH"
    ELSE IF accum.opcode = "NULL" /\ ~GB_Type_compatible(Co.type, T_type)
    THEN "GrB_DOMAIN_MISMATCH"
    ELSE IF Mo.status # "none" /\ Mo.type = "udt"
    THEN "GrB_DOMAIN_MISMATCH"
    ELSE IF /\ Mo.status # "none"
            /\ (GB_NROWS(Mo) # GB_NROWS(Co) \/ GB_NCOLS(Mo) # GB_NCOLS(Co))
    THEN "GrB_DIMENSION_MISMATCH"
    ELSE "GrB_SUCCESS"


-----------------------------------------------------------------------------
(* GB_ewise: C<M> = accum (C, A+B) or A.*B *)

\* The state of one call: m.heap, m.call, m.loc, m.pc and m.ghost.  Each
\* step of GB_ewise maps the state to the next one.
Machine == [heap |-> heap, call |-> call, loc |-> loc, pc |-> pc,
            ghost |-> ghost]

Temporaries == {"MT", "AT", "BT", "T"}

\* return (info)
Return(m, info, path) ==
    [m EXCEPT !.pc = "done", !.loc.info = info, !.ghost.path = path]

\* GB_Matrix_free (&X): X is freed and the pointer set to NULL; nothing
\* is done if it is NULL already
GB_Matrix_free(m, x) ==
    IF m.loc[x] = "NULL" THEN m
    ELSE [m EXCEPT !.heap[x].status = "freed", !.loc[x] = "NULL",
                   !.ghost.frees[x] = @ + 1]

\* GB_FREE_ALL without the free of MT
FreeAllButMT(m) ==
    GB_Matrix_free(GB_Matrix_free(GB_Matrix_free(m, "T"), "AT"), "BT")

GB_FREE_ALL(m) ==
    GB_Matrix_free(
        GB_Matrix_free(GB_Matrix_free(GB_Matrix_free(m, "T"), "AT"), "BT"),
        "MT")

\* GB_OK (info) when info is not GrB_SUCCESS
Fail(m, info) == Return(GB_FREE_ALL(m), info, "fail")

\* GB_BinaryOp_compatible (op, NULL, A->type, B->type, ...)
GB_BinaryOp_compatible(op, atype, btype) ==
    IF GB_OPCODE_IS_POSITIONAL(op.opcode) THEN "GrB_SUCCESS"
    ELSE IF GB_Type_compatible(op.xtype, atype)
            /\ GB_Type_compatible(op.ytype, btype)
    THEN "GrB_SUCCESS"
    ELSE "GrB_DOMAIN_MISMATCH"

\* the dimensions compared without the transposes
DimensionsAsGiven(Co, Ao, At, Bo, Bt) ==
    \/ GB_NROWS(Ao) # GB_NROWS(Bo)
    \/ GB_NCOLS(Ao) # GB_NCOLS(Bo)
    \/ GB_NROWS(Co) # GB_NROWS(Ao)
    \/ GB_NCOLS(Co) # GB_NCOLS(Bo)

\* the dimensions of A, B and C do not agree, A and B transposed as asked
DimensionMismatch(Co, Ao, At, Bo, Bt) ==
    LET anrows == IF At THEN GB_NCOLS(Ao) ELSE GB_NROWS(Ao)
        ancols == IF At THEN GB_NROWS(Ao) ELSE GB_NCOLS(Ao)
        bnrows == IF Bt THEN GB_NCOLS(Bo) ELSE GB_NROWS(Bo)
        bncols == IF Bt THEN GB_NROWS(Bo) ELSE GB_NCOLS(Bo)
    IN  \/ anrows # bnrows
        \/ ancols # bncols
        \/ GB_NROWS(Co) # anrows
        \/ GB_NCOLS(Co) # bncols

\* check inputs
CheckInputs(m) ==
    LET cl == m.call
        Co == m.heap[cl.C]
        Ao == m.heap[cl.A]
        Bo == m.heap[cl.B]
    IN  IF cl.accum.faulty
        THEN Return(m, "GrB_UNINITIALIZED_OBJECT", "error")
        ELSE IF GB_OPCODE_IS_POSITIONAL(cl.accum.opcode)
        THEN Return(m, "GrB_DOMAIN_MISMATCH", "error")
        ELSE IF GB_compatible(Co, Deref(m.heap, cl.M), cl.accum,
                              cl.op.ztype) # "GrB_SUCCESS"
        THEN Return(GB_FREE_ALL(m),
                    GB_compatible(Co, Deref(m.heap, cl.M), cl.accum,
                                  cl.op.ztype), "error")
        ELSE IF GB_BinaryOp_compatible(cl.op, Ao.type, Bo.type)
                # "GrB_SUCCESS"
        THEN Return(GB_FREE_ALL(m), "GrB_DOMAIN_MISMATCH", "error")
        ELSE IF cl.eWiseAdd /\ ~GB_Type_compatible(Co.type, Ao.type)
        THEN Return(m, "GrB_DOMAIN_MISMATCH", "error")
        ELSE IF cl.eWiseAdd /\ ~GB_Type_compatible(Co.type, Bo.type)
        THEN Return(m, "GrB_DOMAIN_MISMATCH", "error")
        ELSE IF DimensionMismatch(Co, Ao, cl.A_transpose, Bo, cl.B_transpose)
        THEN Return(m, "GrB_DIMENSION_MISMATCH", "error")
        ELSE [m EXCEPT !.pc = "quick"]

\* GB_RETURN_IF_QUICK_MASK (C, C_replace, M, Mask_comp): an empty mask is
\* complemented; C is cleared if C_replace is set
QuickMask(m) ==
    IF m.call.Mask_comp /\ m.call.M = "NULL"
    THEN Return(IF m.call.C_replace
                THEN [m EXCEPT !.heap[m.call.C].e = Empty,
                               !.heap[m.call.C].pend = Empty]
                ELSE m,
                "GrB_SUCCESS", "quick")
    ELSE [m EXCEPT !.pc = "wait"]

\* the matrices among M, A and B with pending work
Unfinished(m) ==
    {x \in {m.call.M, m.call.A, m.call.B} \ {"NULL"} :
        m.heap[x].pend # Empty}

\* GB_MATRIX_WAIT (M) ; GB_MATRIX_WAIT (A) ; GB_MATRIX_WAIT (B)
Wait(m) ==
    IF m.call.fail = "wait" /\ Unfinished(m) # {}
    THEN Fail(m, "GrB_OUT_OF_MEMORY")
    ELSE [m EXCEPT !.heap = [x \in DOMAIN m.heap |->
                                IF x \in Unfinished(m)
                                THEN GB_Matrix_wait(m.heap[x])
                                ELSE m.heap[x]],
                   !.ghost.waited = Unfinished(m),
                   !.pc = "orient"]

\* the transpose flags taken as given and T held as C is, whatever the
\* formats of A and B are
OrientAsGiven(m) ==
    [m EXCEPT !.loc.A_transpose = m.call.A_transpose /\ ~m.call.B_transpose,
              !.loc.B_transpose = m.call.B_transpose /\ ~m.call.A_transpose,
              !.loc.T_is_csc = IF m.call.A_transpose /\ m.call.B_transpose
                               THEN ~m.heap[m.call.C].is_csc
                               ELSE m.heap[m.call.C].is_csc,
              !.pc = "MT"]

\* handle CSR and CSC formats
Orient(m) ==
    LET Ccsc == m.heap[m.call.C].is_csc
        At == IF Ccsc # m.heap[m.call.A].is_csc THEN ~m.call.A_transpose
              ELSE m.call.A_transpose
        Bt == IF Ccsc # m.heap[m.call.B].is_csc THEN ~m.call.B_transpose
              ELSE m.call.B_transpose
        T_is_csc == IF At /\ Bt THEN ~Ccsc ELSE Ccsc
    IN  [m EXCEPT !.loc.A_transpose = At /\ ~Bt,
                  !.loc.B_transpose = Bt /\ ~At,
                  !.loc.T_is_csc = T_is_csc,
                  !.loc.op = IF ~T_is_csc /\ GB_OPCODE_IS_POSITIONAL(@.opcode)
                             THEN GB_positional_binop_ijflip(@) ELSE @,
                  !.pc = "MT"]

\* GB_OK (GB_transpose (&X, type, T_is_csc, src, ...)) ; field = X
Transposed(m, x, src, type, field, next) ==
    IF m.call.fail = x THEN Fail(m, "GrB_OUT_OF_MEMORY")
    ELSE [m EXCEPT !.heap[x] = GB_transpose(m.heap[src], type,
                                            m.loc.T_is_csc),
                   !.loc[x] = x,
                   !.loc[field] = x,
                   !.ghost.made = @ \cup {x},
                   !.pc = next]

\* transpose M if needed
TransposeM(m) ==
    IF m.call.M # "NULL" /\ m.loc.T_is_csc # m.heap[m.call.M].is_csc
    THEN Transposed(m, "MT", m.call.M, "bool", "M1", "AT")
    ELSE [m EXCEPT !.loc.M1 = m.call.M, !.pc = "AT"]

\* A is used as it is
UseA(m) == [m EXCEPT !.loc.A1 = m.call.A, !.pc = "BT"]

\* transpose A if needed
TransposeA(m) ==
    IF m.loc.A_transpose
    THEN Transposed(m, "AT", m.call.A, "NULL", "A1", "BT")
    ELSE [m EXCEPT !.loc.A1 = m.call.A, !.pc = "BT"]

\* transpose B if needed
TransposeB(m) ==
    IF m.loc.B_transpose
    THEN Transposed(m, "BT", m.call.B, "NULL", "B1", "special")
    ELSE [m EXCEPT !.loc.B1 = m.call.B, !.pc = "special"]

\* a loop that takes every aij from the first entry of A
RECURSIVE DenseFromFirst(_, _, _, _)
DenseFromFirst(m, accumulate, p, n) ==
    IF p = n THEN m
    ELSE LET c == m.call.C
             vlen == m.heap[c].vlen
             s == <<p % vlen, p \div vlen>>
             t == ApplyOp(m.loc.op, m.heap[m.loc.A1].e[<<0, 0>>],
                          m.heap[m.loc.B1].e[s], s)
             z == IF accumulate THEN ApplyOp(m.loc.op, m.heap[c].e[s], t, s)
                  ELSE t
         IN  DenseFromFirst(
                 [m EXCEPT !.heap[c].e =
                               [q \in DOMAIN @ \cup {s} |->
                                   IF q = s THEN z ELSE @[q]]],
                 accumulate, p + 1, n)

\* the loop of the dense kernels over the n entries, from entry p on:
\* cij = op (cij, op (aij, bij)), or cij = op (aij, bij), in place in C
RECURSIVE DenseLoop(_, _, _, _)
DenseLoop(m, accumulate, p, n) ==
    IF p = n THEN m
    ELSE LET c == m.call.C
             vlen == m.heap[c].vlen
             s == <<p % vlen, p \div vlen>>
             t == ApplyOp(m.loc.op, m.heap[m.loc.A1].e[s],
                          m.heap[m.loc.B1].e[s], s)
             z == IF accumulate THEN ApplyOp(m.loc.op, m.heap[c].e[s], t, s)
                  ELSE t
         IN  DenseLoop(
                 [m EXCEPT !.heap[c].e =
                               [q \in DOMAIN @ \cup {s} |->
                                   IF q = s THEN z ELSE @[q]],
                           !.ghost.stale =
                               @ \/ (p > 0 /\ c \in {m.loc.A1, m.loc.B1})],
                 accumulate, p + 1, n)

\* GB_dense_ewise3_accum and GB_dense_ewise3_noaccum, which makes C dense
\* first if it is not
DenseKernel(m, accumulate, C_is_dense) ==
    DenseLoop(IF C_is_dense THEN m
              ELSE [m EXCEPT !.heap[m.call.C].e = Empty,
                             !.heap[m.call.C].pend = Empty],
              accumulate, 0,
              m.heap[m.call.C].vlen * m.heap[m.call.C].vdim)

\* A and B are dense, no mask, no transpose of C, no typecast, op built-in
\* (of the opcodes FIRST, RDIV, FIRSTI, FIRSTJ and USER only the last is
\* not below GB_USER_opcode)
DenseCase(m) ==
    /\ GB_is_dense(m.heap[m.call.A])
    /\ GB_is_dense(m.heap[m.call.B])
    /\ m.call.M = "NULL" /\ ~m.call.Mask_comp
    /\ m.heap[m.call.C].is_csc = m.loc.T_is_csc
    /\ m.loc.op.ztype = m.heap[m.call.C].type
    /\ m.loc.op.xtype = m.heap[m.loc.A1].type
    /\ m.loc.op.ytype = m.heap[m.loc.B1].type
    /\ m.loc.op.opcode # "USER"
    /\ ~GB_OPCODE_IS_POSITIONAL(m.loc.op.opcode)

\* The record of who computed the result: the pre-compiled kernel, or the
\* generic path of the function after the kernel declined
Worked(m, fn, declines) ==
    [m EXCEPT !.ghost.declined = @ \/ declines,
              !.ghost.ran = @ \cup {<<fn, IF declines THEN "generic"
                                          ELSE "kernel">>}]

\* special cases (of the opcodes of the model only RDIV is between
\* GB_MIN_opcode and GB_RDIV_opcode)
Special(m, dense, C_is_dense) ==
    IF dense /\ C_is_dense /\ m.call.accum = m.loc.op
       /\ m.loc.op.opcode = "RDIV"
    THEN Return(GB_FREE_ALL(DenseKernel(m, TRUE, TRUE)), "GrB_SUCCESS",
                "dense_accum")
    ELSE IF dense /\ m.call.accum.opcode = "NULL"
    THEN IF m.call.fail = "dense" /\ ~C_is_dense
         THEN Return(GB_FREE_ALL(m), "GrB_OUT_OF_MEMORY", "fail")
         ELSE Return(GB_FREE_ALL(Worked(DenseKernel(m, FALSE, C_is_dense),
                                        "GB_dense_ewise3_noaccum",
                                        m.call.fail = "decline")),
                     "GrB_SUCCESS", "dense_noaccum")
    ELSE [m EXCEPT !.loc.eWiseAdd =
                       @ /\ ~(GB_is_dense(m.heap[m.call.A])
                              /\ GB_is_dense(m.heap[m.call.B])),
                   !.pc = "T"]

\* the mask handed to GB_add or GB_emult
MaskForT(m) ==
    IF m.loc.eWiseAdd THEN m.loc.M1
    ELSE IF /\ m.call.M # "NULL"
            /\ ~m.call.Mask_comp
            /\ \/ /\ GB_is_dense(m.heap[m.call.A]) \/ m.call.A = m.call.M
                  /\ GB_is_dense(m.heap[m.call.B]) \/ m.call.B = m.call.M
               \/ m.call.use_mask
    THEN m.loc.M1
    ELSE "NULL"

\* T = A+B or A.*B, or with any mask M
BuildT(m, M1, applied) ==
    IF m.call.fail = "T" THEN Fail(m, "GrB_OUT_OF_MEMORY")
    ELSE [m EXCEPT !.heap["T"] =
                       GB_add_emult(m.loc.eWiseAdd, m.loc.T_is_csc,
                                    Deref(m.heap, M1), applied,
                                    m.call.Mask_struct, m.call.Mask_comp,
                                    m.heap[m.loc.A1], m.heap[m.loc.B1],
                                    m.loc.op),
                   !.loc.T = "T",
                   !.loc.M1 = M1,
                   !.loc.mask_applied = applied,
                   !.ghost.made = @ \cup {"T"},
                   !.pc = "free"]

\* free the transposed matrices
FreeTransposed(m) ==
    [GB_Matrix_free(GB_Matrix_free(m, "AT"), "BT") EXCEPT !.pc = "final"]

\* the test for the transplant without the test of the mask
CanTransplantUnmasked(m) ==
    /\ m.call.accum.opcode = "NULL"
    /\ m.heap[m.call.C].is_csc = m.heap[m.loc.T].is_csc
    /\ (m.call.C_replace \/ GB_NNZ_UPPER_BOUND(m.heap[m.call.C]) = 0)

\* the test for the transplant without the test of the format of T
CanTransplantAcross(m) ==
    /\ m.call.accum.opcode = "NULL"
    /\ (m.call.M = "NULL" \/ m.loc.mask_applied)
    /\ (m.call.C_replace \/ GB_NNZ_UPPER_BOUND(m.heap[m.call.C]) = 0)

\* T can be transplanted into C
CanTransplant(m) ==
    /\ m.call.accum.opcode = "NULL"
    /\ m.heap[m.call.C].is_csc = m.heap[m.loc.T].is_csc
    /\ (m.call.M = "NULL" \/ m.loc.mask_applied)
    /\ (m.call.C_replace \/ GB_NNZ_UPPER_BOUND(m.heap[m.call.C]) = 0)

\* return (GB_transplant_conform (C, C->type, &T, Context)): T becomes C;
\* it is freed once its values are typecast, or if the transplant fails
Transplant(m) ==
    IF m.call.fail = "final"
    THEN Return(GB_Matrix_free(m, "T"), "GrB_OUT_OF_MEMORY", "fail")
    ELSE IF m.heap["T"].type # m.heap[m.call.C].type
    THEN Return(GB_Matrix_free(
                    [m EXCEPT !.heap[m.call.C] =
                                  GB_transplant_conform(m.heap[m.call.C],
                                                        m.heap["T"])],
                    "T"),
                "GrB_SUCCESS", "transplant")
    ELSE Return([m EXCEPT !.heap[m.call.C] =
                              GB_transplant_conform(m.heap[m.call.C],
                                                    m.heap["T"]),
                          !.heap["T"].status = "moved",
                          !.loc.T = "NULL",
                          !.ghost.handed = TRUE],
                "GrB_SUCCESS", "transplant")

\* info = GB_accum_mask (C, M, MT, accum, &T, ...), which frees T
AccumMaskCall(m) ==
    IF m.call.fail = "final"
    THEN [GB_Matrix_free(m, "T") EXCEPT !.loc.info = "GrB_OUT_OF_MEMORY",
                                        !.ghost.path = "fail"]
    ELSE [GB_Matrix_free(
              [m EXCEPT !.heap[m.call.C] =
                            GB_accum_mask(m.heap[m.call.C],
                                          Deref(m.heap, m.call.M),
                                          Deref(m.heap, m.loc.MT),
                                          m.call.accum, m.heap["T"],
                                          m.call.C_replace, m.call.Mask_comp,
                                          m.call.Mask_struct)],
              "T")
          EXCEPT !.loc.info = "GrB_SUCCESS", !.ghost.path = "accum_mask"]

\* C<M> = accum (C,T): accumulate the results into C via the mask
Final(m) ==
    IF CanTransplant(m) THEN Transplant(GB_Matrix_free(m, "MT"))
    ELSE [GB_Matrix_free(AccumMaskCall(m), "MT") EXCEPT !.pc = "done"]


\* one step of GB_ewise
StepOf(m) ==
    CASE m.pc = "check" -> CheckInputs(m)
      [] m.pc = "quick" -> QuickMask(m)
      [] m.pc = "wait" -> Wait(m)
      [] m.pc = "orient" -> Orient(m)
      [] m.pc = "MT" -> TransposeM(m)
      [] m.pc = "AT" -> TransposeA(m)
      [] m.pc = "BT" -> TransposeB(m)
      [] m.pc = "special" ->
            Special(m, DenseCase(m),
                    GB_is_dense(m.heap[m.call.C])
                    /\ m.heap[m.call.C].pend = Empty)
      [] m.pc = "T" ->
            BuildT(m, MaskForT(m),
                   MaskForT(m) # "NULL"
                   /\ (m.loc.eWiseAdd => m.call.use_mask))
      [] m.pc = "free" -> FreeTransposed(m)
      [] m.pc = "final" -> Final(m)

\* the call from the state m to its return
RECURSIVE Run(_)
Run(m) == IF m.pc = "done" THEN m ELSE Run(StepOf(m))

\* the variables take the state m
Becomes(m) ==
    /\ heap' = m.heap
    /\ loc' = m.loc
    /\ pc' = m.pc
    /\ ghost' = m.ghost
    /\ UNCHANGED call
    /\ UNCHANGED varsEmult

-----------------------------------------------------------------------------
(* The calls GB_ewise is run on *)

\* the matrices are at most Dim-by-Dim
Dim == 2

\* The content of cell t of the result (ncols columns) in the input s:
\* whether C, A (or A'), B (or B') and M have an entry there, and whether
\* the value is nonzero.  Over s the first cell takes every combination.
Combo(s, t, ncols) == (s + 7 * (t[1] * ncols + t[2])) % 24

Has(k, s, t, ncols) ==
    CASE k = "C" -> Combo(s, t, ncols) % 2 = 1
      [] k = "A" -> (Combo(s, t, ncols) \div 2) % 2 = 1
      [] k = "B" -> (Combo(s, t, ncols) \div 4) % 2 = 1
      [] k = "M" -> Combo(s, t, ncols) \div 8 >= 1

\* the matrix with the entries L, a function of the cells <<row, column>>;
\* with pending set, the entries of its row 0 are pending tuples
FromLogical(type, dims, is_csc, L, pending) ==
    Object("live", type,
           IF is_csc THEN dims[1] ELSE dims[2],
           IF is_csc THEN dims[2] ELSE dims[1],
           is_csc,
           [q \in {IF is_csc THEN t ELSE Swap(t) :
                      t \in {u \in DOMAIN L : ~pending \/ u[1] # 0}} |->
               L[IF is_csc THEN q ELSE Swap(q)]],
           [q \in {IF is_csc THEN t ELSE Swap(t) :
                      t \in {u \in DOMAIN L : pending /\ u[1] = 0}} |->
               L[IF is_csc THEN q ELSE Swap(q)]])

\* the entries of the matrix k of the input p: all of them, none, or
\* those of the cells (of the transpose, with tr) Combo gives to k
Content(k, p, dims, fill, tr) ==
    [t \in {u \in (0..(dims[1] - 1)) \X (0..(dims[2] - 1)) :
               \/ fill = "full"
               \/ /\ fill = "combo"
                  /\ Has(k, p.s, IF tr THEN Swap(u) ELSE u, p.cdims[2])} |->
        In(k, t[1], t[2],
           Combo(p.s, IF tr THEN Swap(t) ELSE t, p.cdims[2]) \div 8 = 2)]

HeapOf(p) ==
    [x \in {"C", "A", "B", "M"} \cup Temporaries |->
        CASE x = "C" -> FromLogical(p.ctype, p.cdims, p.Ccsc,
                                    Content("C", p, p.cdims, p.cFill, FALSE),
                                    "C" \in p.pending)
          [] x = "A" -> FromLogical(p.atype, p.adims, p.Acsc,
                                    Content("A", p, p.adims,
                                            IF p.abFull THEN "full"
                                            ELSE "combo", p.At),
                                    "A" \in p.pending)
          [] x = "B" -> FromLogical(p.btype, p.bdims, p.Bcsc,
                                    Content("B", p, p.bdims,
                                            IF p.abFull THEN "full"
                                            ELSE "combo", p.Bt),
                                    "B" \in p.pending)
          [] x = "M" -> FromLogical(p.mtype, p.mdims, p.Mcsc,
                                    Content("M", p, p.mdims, "combo", FALSE),
                                    "M" \in p.pending)
          [] OTHER -> NoObject]

BinaryOp(opcode, type) ==
    [opcode |-> opcode, xtype |-> type, ytype |-> type, ztype |-> type,
     faulty |-> FALSE]

CallOf(p) ==
    [C |-> "C", A |-> p.Aref, B |-> p.Bref, M |-> p.Mref,
     C_replace |-> p.C_replace, Mask_comp |-> p.Mask_comp,
     Mask_struct |-> p.Mask_struct,
     accum |-> CASE p.accum = "NULL" -> NoOp
                 [] p.accum = "op" -> BinaryOp(p.opcode, p.optype)
                 [] p.accum = "other" -> BinaryOp("FIRST", p.acctype)
                 [] p.accum = "positional" -> BinaryOp("FIRSTI", p.acctype)
                 [] p.accum = "faulty" ->
                       [BinaryOp("FIRST", p.acctype) EXCEPT !.faulty = TRUE],
     op |-> BinaryOp(p.opcode, p.optype),
     A_transpose |-> p.At, B_transpose |-> p.Bt, eWiseAdd |-> p.add,
     fail |-> p.fail, use_mask |-> p.use_mask]

\* the local variables and the record of the call when it starts
LocalsOf(cl) ==
    [MT |-> "NULL", AT |-> "NULL", BT |-> "NULL", T |-> "NULL",
     A_transpose |-> cl.A_transpose, B_transpose |-> cl.B_transpose,
     T_is_csc |-> TRUE, eWiseAdd |-> cl.eWiseAdd, op |-> cl.op,
     M1 |-> cl.M, A1 |-> cl.A, B1 |-> cl.B, mask_applied |-> FALSE,
     info |-> "none"]

GhostOf(h) ==
    [frees |-> [x \in Temporaries |-> 0], made |-> {}, handed |-> FALSE,
     path |-> "", waited |-> {}, stale |-> FALSE, init |-> h,
     declined |-> FALSE, ran |-> {}, renamed |-> "none",
     values |-> {}]

\* The calls, in families
EwiseInputs ==
    LET Square == <<Dim, Dim>>
        Shapes == {Square, <<1, Dim>>, <<Dim, 1>>}
        Default ==
            [s |-> 0, cFill |-> "combo", abFull |-> FALSE,
             Ccsc |-> TRUE, Acsc |-> TRUE, Bcsc |-> TRUE, Mcsc |-> TRUE,
             At |-> FALSE, Bt |-> FALSE, add |-> FALSE,
             Aref |-> "A", Bref |-> "B", Mref |-> "NULL",
             Mask_comp |-> FALSE, Mask_struct |-> FALSE, C_replace |-> FALSE,
             accum |-> "NULL", opcode |-> "RDIV",
             ctype |-> "fp64", atype |-> "fp64", btype |-> "fp64",
             optype |-> "fp64", acctype |-> "fp64", mtype |-> "bool",
             cdims |-> Square, adims |-> Square, bdims |-> Square, mdims |-> Square,
             pending |-> {}, fail |-> "none", use_mask |-> FALSE]
        \* every content of a cell with every mask, flag and accum
        ProtocolInputs ==
            {[Default EXCEPT !.s = s, !.Mref = mref, !.Mask_comp = f[1],
                             !.Mask_struct = f[2], !.C_replace = f[3],
                             !.accum = acc, !.add = add] :
                s \in 0..23, mref \in {"NULL", "M"},
                f \in BOOLEAN \X BOOLEAN \X BOOLEAN,
                acc \in {"NULL", "other"}, add \in BOOLEAN}
        \* a mask in either format, applied early or late, C empty or not
        MaskInputs ==
            {[Default EXCEPT !.s = s, !.Mref = "M", !.Mask_comp = f[1],
                             !.C_replace = f[2], !.accum = acc, !.add = f[3],
                             !.use_mask = f[4], !.Mcsc = f[5], !.At = f[6],
                             !.Bt = f[6], !.cFill = fill] :
                s \in {0, 13}, f \in BOOLEAN \X BOOLEAN \X BOOLEAN \X BOOLEAN
                                    \X BOOLEAN \X BOOLEAN,
                acc \in {"NULL", "other"}, fill \in {"combo", "empty"}}
        \* the matrix of the shape of C, or of its transpose
        Fit(dims, tr) == IF tr THEN Swap(dims) ELSE dims
        \* every format of C, A and B with every transpose, no mask
        OrientInputs ==
            {[Default EXCEPT !.s = s, !.Ccsc = f[1], !.Acsc = f[2], !.Bcsc = f[3],
                             !.At = f[4], !.Bt = f[5], !.add = f[6],
                             !.C_replace = TRUE, !.opcode = opcode,
                             !.cdims = dims, !.adims = Fit(dims, f[4]),
                             !.bdims = Fit(dims, f[5])] :
                s \in {1, 10, 20},
                f \in BOOLEAN \X BOOLEAN \X BOOLEAN \X BOOLEAN \X BOOLEAN \X BOOLEAN,
                opcode \in {"RDIV", "FIRSTI"}, dims \in {Square, <<1, Dim>>}}
        \* every format of C, A, B and M with every transpose, with a mask
        OrientMaskInputs ==
            {[Default EXCEPT !.s = s, !.Ccsc = f[1], !.Acsc = f[2], !.Bcsc = f[3],
                             !.Mcsc = f[4], !.At = f[5], !.Bt = f[6], !.add = f[7],
                             !.use_mask = f[8], !.Mref = "M",
                             !.cdims = <<1, Dim>>, !.mdims = <<1, Dim>>,
                             !.adims = Fit(<<1, Dim>>, f[5]),
                             !.bdims = Fit(<<1, Dim>>, f[6])] :
                s \in {9, 18},
                f \in BOOLEAN \X BOOLEAN \X BOOLEAN \X BOOLEAN \X BOOLEAN
                        \X BOOLEAN \X BOOLEAN \X BOOLEAN}
        \* A and B dense
        DenseInputs ==
            {[Default EXCEPT !.s = 3, !.abFull = TRUE, !.cFill = fill,
                             !.accum = acc, !.opcode = opcode, !.ctype = ctype,
                             !.At = tr[1], !.Bt = tr[2], !.C_replace = f[1],
                             !.pending = IF f[2] THEN {"C"} ELSE {},
                             !.add = f[3]] :
                fill \in {"full", "combo", "empty"}, acc \in {"NULL", "op", "other"},
                opcode \in {"RDIV", "FIRST", "USER", "FIRSTI"},
                ctype \in {"fp64", "int8"},
                tr \in {<<FALSE, FALSE>>, <<TRUE, TRUE>>, <<TRUE, FALSE>>},
                f \in BOOLEAN \X BOOLEAN \X BOOLEAN}
        \* C is also A, B or M; M is also A
        AliasInputs ==
            {[Default EXCEPT !.s = s, !.Aref = r[1], !.Bref = r[2], !.Mref = r[3],
                             !.accum = acc, !.add = f[1], !.C_replace = f[2],
                             !.At = f[3], !.Mask_comp = f[4],
                             !.pending = IF f[5] THEN {"C"} ELSE {},
                             !.cFill = fill, !.abFull = fill = "full",
                             !.use_mask = TRUE] :
                s \in {2, 15, 22},
                r \in {q \in {"A", "C"} \X {"B", "C"} \X {"NULL", "M", "C", "A"} :
                         /\ "C" \in {q[1], q[2], q[3]}
                         /\ q[3] = "A" => q[1] = "A"},
                acc \in {"NULL", "op"},
                f \in BOOLEAN \X BOOLEAN \X BOOLEAN \X BOOLEAN \X BOOLEAN,
                fill \in {"combo", "full"}}
        \* types that do or do not fit, and an accum that is not valid, with
        \* pending work in A, B and M
        TypeInputs ==
            {[Default EXCEPT !.s = 23, !.ctype = ty[1], !.atype = ty[2],
                             !.btype = ty[3], !.optype = ty[4], !.acctype = ty[5],
                             !.mtype = mask[2], !.Mref = mask[1], !.accum = acc,
                             !.add = add, !.pending = {"A", "B", "M"}] :
                ty \in {"fp64", "udt"} \X {"fp64", "udt"} \X {"fp64", "udt"}
                       \X {"fp64", "udt"} \X {"fp64", "udt"},
                mask \in {<<"NULL", "bool">>, <<"M", "bool">>, <<"M", "udt">>},
                acc \in {"NULL", "other", "faulty", "positional"},
                add \in BOOLEAN}
        \* shapes that do or do not fit, with pending work in A, B and M
        ShapeInputs ==
            {[Default EXCEPT !.s = 23, !.cdims = d[1], !.adims = d[2],
                             !.bdims = d[3], !.mdims = d[4], !.At = f[1],
                             !.Bt = f[2], !.Mref = IF f[3] THEN "M" ELSE "NULL",
                             !.pending = {"A", "B", "M"}] :
                d \in Shapes \X Shapes \X Shapes \X Shapes,
                f \in BOOLEAN \X BOOLEAN \X BOOLEAN}
        \* pending work in any of the matrices
        PendingInputs ==
            {[Default EXCEPT !.s = s, !.pending = pending, !.accum = acc,
                             !.Mref = IF f[1] THEN "M" ELSE "NULL",
                             !.C_replace = f[2], !.add = f[3]] :
                s \in {7, 23}, pending \in SUBSET {"C", "A", "B", "M"},
                acc \in {"NULL", "other"}, f \in BOOLEAN \X BOOLEAN \X BOOLEAN}
        \* a step that runs out of memory
        FailInputs ==
            {[Default EXCEPT !.s = 23, !.fail = fail, !.Mcsc = f[1], !.At = tr[1],
                             !.Bt = tr[2], !.accum = acc, !.C_replace = f[2],
                             !.Mref = IF f[3] THEN "M" ELSE "NULL",
                             !.abFull = f[4], !.use_mask = TRUE,
                             !.pending = IF f[5] THEN {"A"} ELSE {}] :
                fail \in {"wait", "MT", "AT", "BT", "dense", "T", "final"},
                tr \in BOOLEAN \X BOOLEAN, acc \in {"NULL", "other"},
                f \in BOOLEAN \X BOOLEAN \X BOOLEAN \X BOOLEAN \X BOOLEAN}
    IN  <<ProtocolInputs, MaskInputs, OrientInputs, OrientMaskInputs,
          DenseInputs, AliasInputs, TypeInputs, ShapeInputs,
          PendingInputs, FailInputs>>

\* The call cl starts at the place pc0 with the matrices h; the operands
\* of GB_emult_template are not set
Starts(cl, h, locals, pc0) ==
    /\ call = cl
    /\ heap = h
    /\ loc = locals
    /\ ghost = GhostOf(h)
    /\ pc = pc0
    /\ A = NoMatrix /\ B = NoMatrix /\ M = NoMatrix
    /\ Mask_struct = FALSE
    /\ TaskList = <<>> /\ Cp = Empty /\ Ci = Empty /\ Cx = Empty
    /\ phase = 0
    /\ done = Empty /\ writes = Empty /\ reads = Empty
    /\ counted = <<>> /\ filled = {}

InitEwise ==
    \E family \in DOMAIN EwiseInputs :
       \E p \in EwiseInputs[family] :
          Starts(CallOf(p), HeapOf(p), LocalsOf(CallOf(p)), "check")

\* one step of the call, by its place in GB_ewise
NextEwise ==
    \/ pc = "check" /\ Becomes(CheckInputs(Machine))
    \/ pc = "quick" /\ Becomes(QuickMask(Machine))
    \/ pc = "wait" /\ Becomes(Wait(Machine))
    \/ pc = "orient" /\ Becomes(Orient(Machine))
    \/ pc = "MT" /\ Becomes(TransposeM(Machine))
    \/ pc = "AT" /\ Becomes(TransposeA(Machine))
    \/ pc = "BT" /\ Becomes(TransposeB(Machine))
    \/ pc = "special" /\ Becomes(StepOf(Machine))
    \/ pc = "T" /\ Becomes(StepOf(Machine))
    \/ pc = "free" /\ Becomes(FreeTransposed(Machine))
    \/ pc = "final" /\ Becomes(Final(Machine))

SpecEwise == InitEwise /\ [][NextEwise]_vars


-----------------------------------------------------------------------------
(* Kernels that decline: GB_dense_accum_sparse, GB_subassign_23, GB_AxB_dot *)

\* GB_dense_accum_sparse_template.c, GB_dense_subassign_23_template.c and
\* GB_subassign_23_template.c: C(i,j) = accum (C(i,j), (ytype) A(i,j)) for
\* every entry of A; C is dense
Accumulate(Co, Ao, accum) ==
    [Co EXCEPT !.e = [s \in DOMAIN Co.e |->
                         IF s \in DOMAIN Ao.e
                         THEN ApplyOp(accum, Co.e[s],
                                      GB_cast(Ao.e[s], accum.ytype, Ao.type),
                                      s)
                         ELSE Co.e[s]]]

\* GB_binop_builtin (C->type, false, A->type, false, accum, false, ...):
\* the operator is built-in and is applied with no typecast
GB_binop_builtin(ctype, atype, op) ==
    /\ op.opcode # "USER"
    /\ "udt" \notin {ctype, atype}
    /\ ctype = op.xtype /\ atype = op.ytype

\* done, were a kernel that declines taken to have done the work
WorkerDoneAlways(info) == TRUE

\* done = (info != GrB_NO_VALUE)
WorkerDone(info) == info # "GrB_NO_VALUE"

\* the return with nothing done, whatever accum is
NothingToDo(m) == Return(m, "GrB_SUCCESS", "nothing")

\* C += A where C is dense and A is sparse
GB_dense_accum_sparse(m) ==
    LET cl == m.call
        fn == "GB_dense_accum_sparse"
        called == /\ ~cl.GBCOMPACT
                  /\ GB_binop_builtin(m.heap["C"].type, m.heap["A"].type,
                                      cl.accum)
        info == IF cl.GB_DISABLE THEN "GrB_NO_VALUE" ELSE "GrB_SUCCESS"
        \* bool done
        finished == called /\ WorkerDone(info)
        kernel == IF called /\ ~cl.GB_DISABLE
                  THEN Worked([m EXCEPT !.heap["C"] =
                                   Accumulate(@, m.heap["A"], cl.accum)],
                              fn, FALSE)
                  ELSE [m EXCEPT !.ghost.declined = called]
        Ao == m.heap["A"]
        \* cast_A = GB_cast_factory (A->type->code, accum->ytype->code): the
        \* first argument of GB_cast_factory is the type to cast to, so
        \* this is the cast from the y type to the type of A
        cast_A(v) == GB_cast(v, Ao.type, cl.accum.ytype)
        \* GB_dense_accum_sparse_template.c with GB_GETB and GB_BINARYOP of
        \* the generic case
        generic == IF finished THEN kernel
                   ELSE [kernel EXCEPT
                            !.heap["C"].e =
                                [s \in DOMAIN @ |->
                                    IF s \in DOMAIN Ao.e
                                    THEN ApplyOp(cl.accum, @[s],
                                                 cast_A(Ao.e[s]), s)
                                    ELSE @[s]],
                            !.ghost.ran = @ \cup {<<fn, "generic">>}]
    IN  IF cl.accum.opcode = "FIRST" THEN Return(m, "GrB_SUCCESS", "nothing")
        ELSE IF cl.fail = "slice"
        THEN Return(m, "GrB_OUT_OF_MEMORY", "fail")
        ELSE Return(generic, "GrB_SUCCESS", "accum")

\* C += A where C is dense and A is sparse or dense; the factory kernel is
\* compiled out, the JIT kernel may decline
GB_subassign_23(m) ==
    LET cl == m.call
        fn == "GB_subassign_23"
        info == IF cl.GB_JIT_ENABLED THEN cl.jit ELSE "GrB_NO_VALUE"
        jit == IF cl.GB_JIT_ENABLED /\ cl.jit = "GrB_SUCCESS"
               THEN Worked([m EXCEPT !.heap["C"] =
                                Accumulate(@, m.heap["A"], cl.accum)],
                           fn, FALSE)
               ELSE [m EXCEPT !.ghost.declined =
                                  cl.GB_JIT_ENABLED
                                  /\ cl.jit = "GrB_NO_VALUE"]
    IN  IF cl.accum.opcode = "FIRST" \/ cl.iso
        THEN Return(m, "GrB_SUCCESS", "nothing")
        ELSE IF info = "GrB_NO_VALUE"
        THEN Return([jit EXCEPT
                        !.heap["C"] = Accumulate(@, jit.heap["A"], cl.accum),
                        !.ghost.ran = @ \cup {<<fn, "generic">>}],
                    "GrB_SUCCESS", "accum")
        ELSE Return(jit, info, IF info = "GrB_SUCCESS" THEN "accum"
                               ELSE "fail")

\* GB_boolean_rename: the name under which the library keeps a boolean
\* operator that has several
GB_boolean_rename(opcode) ==
    CASE opcode = "DIV" -> "FIRST"
      [] opcode = "RDIV" -> "SECOND"
      [] opcode \in {"MIN", "TIMES"} -> "LAND"
      [] opcode \in {"MAX", "PLUS"} -> "LOR"
      [] opcode \in {"NE", "ISNE", "RMINUS", "MINUS"} -> "LXOR"
      [] opcode = "ISEQ" -> "EQ"
      [] opcode = "ISGT" -> "GT"
      [] opcode = "ISLT" -> "LT"
      [] opcode = "ISGE" -> "GE"
      [] opcode = "ISLE" -> "LE"
      [] OTHER -> opcode

\* the opcode, were no boolean operator renamed
RenamedNever(opcode, code) == opcode

\* if ((*xycode) == GB_BOOL_code) (*mult_opcode) = GB_boolean_rename (...),
\* and the same for the monoid with zcode
Renamed(opcode, code) ==
    IF code = "bool" THEN GB_boolean_rename(opcode) ELSE opcode

\* the semiring is built-in whatever the types of A and B, when neither
\* operator is user-defined
SemiringOfAnyType(Ao, A_is_pattern, Bo, B_is_pattern, semiring, flipxy) ==
    [builtin |-> semiring.add.opcode # "USER"
                 /\ semiring.mult.opcode # "USER",
     mult_opcode |-> Renamed(semiring.mult.opcode, semiring.mult.xtype),
     add_opcode |-> Renamed(semiring.add.opcode, semiring.mult.ztype),
     xycode |-> semiring.mult.xtype, zcode |-> semiring.mult.ztype]

\* GB_AxB_semiring_builtin up to the renaming: whether A*B uses a
\* built-in semiring, and the opcodes and type codes of the kernel if so
SemiringRenamed(Ao, A_is_pattern, Bo, B_is_pattern, semiring, flipxy) ==
    LET add == semiring.add
        mult == semiring.mult
        punt == [builtin |-> FALSE, mult_opcode |-> mult.opcode,
                 add_opcode |-> add.opcode, xycode |-> "unset",
                 zcode |-> "unset"]
    IN  IF /\ ~A_is_pattern
           /\ \/ Ao.type # (IF flipxy THEN mult.ytype ELSE mult.xtype)
              \/ Ao.type = "udt"
        THEN punt
        ELSE IF /\ ~B_is_pattern
                /\ \/ Bo.type # (IF flipxy THEN mult.xtype ELSE mult.ytype)
                   \/ Bo.type = "udt"
        THEN punt
        ELSE IF ~A_is_pattern /\ ~B_is_pattern /\ Ao.type # Bo.type
        THEN punt
        ELSE IF add.opcode = "USER" \/ mult.opcode = "USER"
        THEN punt
        ELSE [builtin |-> TRUE,
              mult_opcode |-> Renamed(mult.opcode, mult.xtype),
              add_opcode |-> Renamed(add.opcode, mult.ztype),
              xycode |-> mult.xtype, zcode |-> mult.ztype]

\* the opcodes as they are, flipxy or not
HandleNoFlipxy(r, flipxy) == r

\* the flipxy handled for FIRST, SECOND and the comparisons only
HandleFlipxyOfOrder(r, flipxy) ==
    IF ~flipxy THEN r
    ELSE [r EXCEPT !.mult_opcode =
                       CASE @ = "FIRST" -> "SECOND"
                         [] @ = "SECOND" -> "FIRST"
                         [] @ \in {"GT", "ISGT"} -> "LT"
                         [] @ \in {"LT", "ISLT"} -> "GT"
                         [] @ \in {"GE", "ISGE"} -> "LE"
                         [] @ \in {"LE", "ISLE"} -> "GE"
                         [] OTHER -> @]

\* handle the flipxy: the opcode that takes A second and B first
HandleFlipxy(r, flipxy) ==
    IF ~flipxy THEN r
    ELSE [r EXCEPT !.mult_opcode =
                       CASE @ = "FIRST" -> "SECOND"
                         [] @ = "SECOND" -> "FIRST"
                         [] @ = "GT" -> "LT"
                         [] @ = "LT" -> "GT"
                         [] @ = "GE" -> "LE"
                         [] @ = "LE" -> "GE"
                         [] @ = "ISGT" -> "ISLT"
                         [] @ = "ISLT" -> "ISGT"
                         [] @ = "ISGE" -> "ISLE"
                         [] @ = "ISLE" -> "ISGE"
                         [] @ = "DIV" -> "RDIV"
                         [] @ = "RDIV" -> "DIV"
                         [] @ = "MINUS" -> "RMINUS"
                         [] @ = "RMINUS" -> "MINUS"
                         [] OTHER -> @]

GB_AxB_semiring_builtin(Ao, A_pattern, Bo, B_pattern, semiring, flipxy) ==
    LET r == SemiringRenamed(Ao, A_pattern, Bo, B_pattern, semiring, flipxy)
    IN  IF r.builtin THEN HandleFlipxy(r, flipxy) ELSE r

\* z = op (x, y) for a built-in operator on boolean x and y, false 0 and
\* true 1: the arithmetic of the operator, the result taken as a boolean
GB_BOOLEAN(opcode, x, y) ==
    LET Bool(v) == IF v # 0 THEN 1 ELSE 0
        Is(c) == IF c THEN 1 ELSE 0
    IN  CASE opcode = "FIRST" -> x
          [] opcode = "SECOND" -> y
          [] opcode = "MIN" -> IF x < y THEN x ELSE y
          [] opcode = "MAX" -> IF x > y THEN x ELSE y
          [] opcode = "PLUS" -> Bool(x + y)
          [] opcode = "MINUS" -> Bool(x - y)
          [] opcode = "RMINUS" -> Bool(y - x)
          [] opcode = "TIMES" -> Bool(x * y)
          [] opcode = "DIV" -> x
          [] opcode = "RDIV" -> y
          [] opcode \in {"ISEQ", "EQ"} -> Is(x = y)
          [] opcode \in {"ISNE", "NE"} -> Is(x # y)
          [] opcode \in {"ISGT", "GT"} -> Is(x > y)
          [] opcode \in {"ISLT", "LT"} -> Is(x < y)
          [] opcode \in {"ISGE", "GE"} -> Is(x >= y)
          [] opcode \in {"ISLE", "LE"} -> Is(x <= y)
          [] opcode = "LOR" -> Is(x # 0 \/ y # 0)
          [] opcode = "LAND" -> Is(x # 0 /\ y # 0)
          [] opcode = "LXOR" -> Is((x # 0) # (y # 0))

\* z = op (x, y) for a built-in operator on x and y of a built-in type:
\* int8 wraps, the integer division is GB_IDIV_SIGNED, and the IS and the
\* logical operators give 0 or 1
GB_BUILTIN(opcode, type, x, y) ==
    LET Wrap(v) == ((v + 128) % 256) - 128
        Is(c) == IF c THEN 1 ELSE 0
        Abs(v) == IF v < 0 THEN -v ELSE v
        Idiv(p, q) ==
            IF q = -1 THEN Wrap(-p)
            ELSE IF q = 0
            THEN (IF p = 0 THEN 0 ELSE IF p < 0 THEN -128 ELSE 127)
            ELSE IF (p < 0) = (q < 0) THEN Abs(p) \div Abs(q)
            ELSE -(Abs(p) \div Abs(q))
    IN  IF type = "bool" THEN GB_BOOLEAN(opcode, x, y)
        ELSE CASE opcode = "FIRST" -> x
               [] opcode = "SECOND" -> y
               [] opcode = "MIN" -> IF x < y THEN x ELSE y
               [] opcode = "MAX" -> IF x > y THEN x ELSE y
               [] opcode = "PLUS" -> Wrap(x + y)
               [] opcode = "MINUS" -> Wrap(x - y)
               [] opcode = "RMINUS" -> Wrap(y - x)
               [] opcode = "TIMES" -> Wrap(x * y)
               [] opcode = "DIV" -> Idiv(x, y)
               [] opcode = "RDIV" -> Idiv(y, x)
               [] opcode \in {"ISEQ", "EQ"} -> Is(x = y)
               [] opcode \in {"ISNE", "NE"} -> Is(x # y)
               [] opcode \in {"ISGT", "GT"} -> Is(x > y)
               [] opcode \in {"ISLT", "LT"} -> Is(x < y)
               [] opcode \in {"ISGE", "GE"} -> Is(x >= y)
               [] opcode \in {"ISLE", "LE"} -> Is(x <= y)
               [] opcode = "LOR" -> Is(x # 0 \/ y # 0)
               [] opcode = "LAND" -> Is(x # 0 /\ y # 0)
               [] opcode = "LXOR" -> Is((x # 0) # (y # 0))

\* z = fmult (x, y): FIRST and SECOND do not look at the other argument
GB_MULTIPLY(mult, x, y, s) ==
    CASE mult.opcode = "FIRST" -> x
      [] mult.opcode = "SECOND" -> y
      [] OTHER -> ApplyOp(mult, x, y, s)

\* GB_AxB_dot_meta.c: C<M> = A'*B, each entry C(i,j) that the mask
\* permits the sum over the k with both A(k,i) and B(k,j) of the products,
\* in the order of k; the value of an operand that is pattern-only is
\* not read
DotProduct(Ao, A_is_pattern, Bo, B_is_pattern, Mo, Mcomp, semiring, flipxy) ==
    LET mult == semiring.mult
        Common(s) == {k \in 0..(Ao.vlen - 1) :
                         <<k, s[1]>> \in DOMAIN Ao.e
                         /\ <<k, s[2]>> \in DOMAIN Bo.e}
        aki(k, s) == IF A_is_pattern THEN <<"unset">>
                     ELSE GB_cast(Ao.e[<<k, s[1]>>],
                                  IF flipxy THEN mult.ytype ELSE mult.xtype,
                                  Ao.type)
        bkj(k, s) == IF B_is_pattern THEN <<"unset">>
                     ELSE GB_cast(Bo.e[<<k, s[2]>>],
                                  IF flipxy THEN mult.xtype ELSE mult.ytype,
                                  Bo.type)
    IN  Object("live", semiring.add.ztype, Ao.vdim, Bo.vdim, TRUE,
               [s \in {t \in (0..(Ao.vdim - 1)) \X (0..(Bo.vdim - 1)) :
                          /\ Common(t) # {}
                          /\ Mo.status = "live" =>
                                 MaskAt(Mo, t, FALSE, Mcomp)} |->
                   <<"dot", semiring.add.opcode,
                     [k \in Common(s) |->
                         IF flipxy
                         THEN GB_MULTIPLY(mult, bkj(k, s), aki(k, s), s)
                         ELSE GB_MULTIPLY(mult, aki(k, s), bkj(k, s), s)]>>],
               Empty)

\* no operand is pattern-only
PatternNever(mult, flipxy) == [A |-> FALSE, B |-> FALSE]

\* bool A_is_pattern, B_is_pattern
PatternOnly(mult, flipxy) ==
    LET op_is_first == mult.opcode = "FIRST"
        op_is_second == mult.opcode = "SECOND"
    IN  [A |-> IF flipxy THEN op_is_first ELSE op_is_second,
         B |-> IF flipxy THEN op_is_second ELSE op_is_first]

\* mask_applied, were it set only for a mask that is not complemented
MaskAppliedAsIs(cl) == cl.M # "NULL" /\ ~cl.Mask_comp

\* (*mask_applied) = (M != NULL)
MaskApplied(cl) == cl.M # "NULL"

\* C = A'*B by dot products: a built-in semiring, a semiring compiled with
\* the library, or the generic semiring through function pointers
GB_AxB_dot(m) ==
    LET cl == m.call
        fn == "GB_AxB_dot"
        pattern == PatternOnly(cl.semiring.mult, cl.flipxy)
        Mo == IF cl.M = "NULL" THEN NoObject ELSE m.heap[cl.M]
        marked == [m EXCEPT !.loc.A_is_pattern = pattern.A,
                            !.loc.B_is_pattern = pattern.B]
        C == DotProduct(m.heap["A"], pattern.A, m.heap["B"], pattern.B,
                        Mo, cl.Mask_comp, cl.semiring, cl.flipxy)
        \* the operands whose values a product reads
        values == IF C.e = Empty THEN {}
                  ELSE {x \in {"A", "B"} : ~pattern[x]}
        \* GB_AxB_alloc
        allocated == [marked EXCEPT !.heap["C"] =
                                   [C EXCEPT !.e = Empty]]
        Computed(w, path) ==
            [w EXCEPT !.heap["C"] = C,
                      !.ghost.ran = @ \cup {<<fn, path>>},
                      !.ghost.values = @ \cup values]
        builtin == /\ ~cl.GBCOMPACT
                   /\ GB_AxB_semiring_builtin(m.heap["A"], pattern.A,
                                              m.heap["B"], pattern.B,
                                              cl.semiring, cl.flipxy).builtin
        worker == IF builtin /\ cl.kernel = "GrB_SUCCESS"
                  THEN Computed(allocated, "kernel")
                  ELSE allocated
        atype_required == IF cl.flipxy THEN cl.semiring.mult.ytype
                          ELSE cl.semiring.mult.xtype
        btype_required == IF cl.flipxy THEN cl.semiring.mult.xtype
                          ELSE cl.semiring.mult.ytype
        user == /\ cl.semiring.object_kind = "GB_USER_COMPILED"
                /\ m.heap["A"].type = atype_required
                /\ m.heap["B"].type = btype_required
        compiled == IF cl.user = "GrB_SUCCESS"
                    THEN Computed(worker, "user")
                    ELSE worker
        Success(w) ==
            Return([w EXCEPT !.loc.mask_applied = MaskApplied(cl)],
                   "GrB_SUCCESS", "dot")
    IN  IF cl.fail = "alloc"
        THEN Return(marked, "GrB_OUT_OF_MEMORY", "fail")
        ELSE IF builtin /\ cl.kernel # "GrB_SUCCESS"
        THEN Return(worker, cl.kernel, "fail")
        ELSE IF user /\ cl.user # "GrB_SUCCESS"
        THEN Return(compiled, cl.user, "fail")
        ELSE IF user THEN Success(compiled)
        ELSE IF builtin THEN Success(worker)
        ELSE Success(Computed(worker, "generic"))


-----------------------------------------------------------------------------
(* The inner loop of the dot product, on the products t of one C(i,j) *)

\* the most products of one C(i,j)
MaxTerms == 3

\* the most entries of an imported matrix
MaxVals == 2

DotTerminalAlways(cij, terminal) == TRUE

\* GB_DOT_TERMINAL (cij): the generic one compares cij with the terminal
\* value when the monoid has one; a kernel of a monoid with a terminal
\* value compares cij with it, and of a monoid without one does nothing.
\* The terminal is <<>> for a monoid without a terminal value, else <<t>>.
DotTerminal(cij, terminal) == terminal # <<>> /\ cij = terminal[1]

\* one pass through the loop body: the first product is copied into
\* cij (GB_DOT_COPY), a later one is added to it (GB_DOT_ADD), and
\* GB_DOT_TERMINAL leaves the loop; the loop ends after the last product
DotStep(m) ==
    LET cl == m.call
        k == m.loc.k
        t == cl.terms[k]
        cij == IF k = 1 THEN t
               ELSE GB_BUILTIN(cl.add.opcode, cl.add.type, m.loc.cij, t)
        added == [m EXCEPT !.loc.cij = cij]
    IN  IF DotTerminal(cij, cl.add.terminal)
        THEN Return(added, "GrB_SUCCESS", "terminal")
        ELSE IF k = Len(cl.terms) THEN Return(added, "GrB_SUCCESS", "end")
        ELSE [added EXCEPT !.loc.k = k + 1]


-----------------------------------------------------------------------------
(* The three kernels of one semiring: C<M> = A*B or C = A*B by the       *)
(* Gustavson and the heap method, C<M> = A'*B or C = A'*B by dot products *)

\* GB_MULTADD_NOMASK: t = mult (x, y), then the workspace w becomes the
\* sum w + t of the monoid
GB_MULTADD_NOMASK(w, x, y, semiring) ==
    GB_BUILTIN(semiring.add.opcode, semiring.add.type, w,
               GB_BUILTIN(semiring.mult.opcode, semiring.mult.type, x, y))

StoreAlways(w, first, x, y, semiring) ==
    GB_BUILTIN(semiring.mult.opcode, semiring.mult.type, x, y)

\* GB_MULTADD_WITH_MASK: the first time C(i,j) is seen the product is
\* stored in the workspace, later on GB_MULTADD_NOMASK adds it
GB_MULTADD_WITH_MASK(w, first, x, y, semiring) ==
    IF first THEN GB_BUILTIN(semiring.mult.opcode, semiring.mult.type, x, y)
    ELSE GB_MULTADD_NOMASK(w, x, y, semiring)

\* GB_AgusB: for every column j, A(:,k)*B(k,j) is scattered into the
\* workspace for k in ascending order and the workspace is gathered into
\* C(:,j).  Without a mask the workspace of the entries of C(:,j) is set
\* to the identity first (GB_CLEARW); with a mask the workspace holds
\* what the Sauna held, and only the entries the mask permits are touched.
GB_AgusB(Ao, Bo, Mo, semiring, Sauna) ==
    LET masked == Mo.status = "live"
        RECURSIVE Work(_, _, _)
        Work(i, j, n) ==
            IF n = 0
            THEN [seen |-> FALSE,
                  w |-> IF masked THEN Sauna ELSE semiring.add.identity]
            ELSE LET before == Work(i, j, n - 1)
                     k == n - 1
                 IN  IF <<i, k>> \in DOMAIN Ao.e /\ <<k, j>> \in DOMAIN Bo.e
                     THEN [seen |-> TRUE,
                           w |-> IF masked
                                 THEN GB_MULTADD_WITH_MASK(
                                          before.w, ~before.seen,
                                          Ao.e[<<i, k>>], Bo.e[<<k, j>>],
                                          semiring)
                                 ELSE GB_MULTADD_NOMASK(before.w, Ao.e[<<i, k>>],
                                              Bo.e[<<k, j>>], semiring)]
                     ELSE before
    IN  Object("live", semiring.add.type, Ao.vlen, Bo.vdim, TRUE,
               [t \in {u \in (0..(Ao.vlen - 1)) \X (0..(Bo.vdim - 1)) :
                          /\ masked => MaskAt(Mo, u, FALSE, FALSE)
                          /\ Work(u[1], u[2], Ao.vdim).seen} |->
                   Work(t[1], t[2], Ao.vdim).w],
               Empty)

\* GB_AheapB: for every column j, the heap merges the vectors A(:,k) of
\* the entries B(k,j); C(i,j) is the product of the first A(i,k) the heap
\* gives (GB_CIJ_MULT) and the later ones are added (GB_CIJ_MULTADD).  The
\* heap gives the entries of one row i in ascending or descending order
\* of k (ties).
GB_AheapB(Ao, Bo, Mo, semiring, ties) ==
    LET masked == Mo.status = "live"
        RECURSIVE Cij(_, _, _)
        Cij(i, j, n) ==
            IF n = 0 THEN [seen |-> FALSE, cij |-> semiring.add.identity]
            ELSE LET before == Cij(i, j, n - 1)
                     k == IF ties = "up" THEN n - 1 ELSE Ao.vdim - n
                 IN  IF <<i, k>> \in DOMAIN Ao.e /\ <<k, j>> \in DOMAIN Bo.e
                     THEN [seen |-> TRUE,
                           cij |-> IF before.seen
                                   THEN GB_MULTADD_NOMASK(before.cij, Ao.e[<<i, k>>],
                                                Bo.e[<<k, j>>], semiring)
                                   ELSE GB_BUILTIN(semiring.mult.opcode,
                                                   semiring.mult.type,
                                                   Ao.e[<<i, k>>],
                                                   Bo.e[<<k, j>>])]
                     ELSE before
    IN  Object("live", semiring.add.type, Ao.vlen, Bo.vdim, TRUE,
               [t \in {u \in (0..(Ao.vlen - 1)) \X (0..(Bo.vdim - 1)) :
                          /\ masked => MaskAt(Mo, u, FALSE, FALSE)
                          /\ Cij(u[1], u[2], Ao.vdim).seen} |->
                   Cij(t[1], t[2], Ao.vdim).cij],
               Empty)

\* GB_AdotB: C(i,j) = A(:,i)'*B(:,j) for the entries the mask permits,
\* over the k both vectors have, in ascending order: the first product
\* is copied (GB_DOT_COPY), the later ones are added (GB_DOT_ADD), and
\* GB_DOT_TERMINAL leaves the loop
GB_AdotB(Ao, Bo, Mo, Mcomp, semiring) ==
    LET masked == Mo.status = "live"
        RECURSIVE Cij(_, _, _)
        Cij(i, j, n) ==
            IF n = 0
            THEN [seen |-> FALSE, left |-> FALSE,
                  cij |-> semiring.add.identity]
            ELSE LET before == Cij(i, j, n - 1)
                     k == n - 1
                     cij == IF before.seen
                            THEN GB_MULTADD_NOMASK(before.cij, Ao.e[<<k, i>>],
                                         Bo.e[<<k, j>>], semiring)
                            ELSE GB_BUILTIN(semiring.mult.opcode,
                                            semiring.mult.type,
                                            Ao.e[<<k, i>>], Bo.e[<<k, j>>])
                 IN  IF /\ ~before.left
                        /\ <<k, i>> \in DOMAIN Ao.e
                        /\ <<k, j>> \in DOMAIN Bo.e
                     THEN [seen |-> TRUE,
                           left |-> DotTerminal(cij, semiring.add.terminal),
                           cij |-> cij]
                     ELSE before
    IN  Object("live", semiring.add.type, Ao.vdim, Bo.vdim, TRUE,
               [t \in {u \in (0..(Ao.vdim - 1)) \X (0..(Bo.vdim - 1)) :
                          /\ masked => MaskAt(Mo, u, FALSE, Mcomp)
                          /\ Cij(u[1], u[2], Ao.vlen).seen} |->
                   Cij(t[1], t[2], Ao.vlen).cij],
               Empty)


-----------------------------------------------------------------------------
(* GxB_Matrix_import_CSC: a matrix from the arrays of the caller *)

\* The heap holds the arrays p, i and x (their data, and whether they are
\* allocated), what the handles Ap, Ai and Ax of the caller point to (an
\* array or NULL) and the matrix the handle A points to.

ImportedNoSizes(Ao, ncols, nvals, Ap) == [Ao EXCEPT !.h = "NULL", !.p = Ap]

ImportedNoP(Ao, ncols, nvals, Ap) ==
    [Ao EXCEPT !.h = "NULL", !.nzmax = nvals, !.plen = ncols, !.nvec = ncols,
               !.magic = "GB_MAGIC"]

\* the column pointers of the caller become those of the matrix, whose
\* sizes are set
Imported(Ao, ncols, nvals, Ap) ==
    [Ao EXCEPT !.h = "NULL", !.p = Ap, !.nzmax = nvals, !.plen = ncols,
               !.nvec = ncols, !.magic = "GB_MAGIC"]

GxB_Matrix_import_CSC(m) ==
    LET cl == m.call
        h == m.heap
        \* GB_IMPORT_CHECK sets the matrix to NULL once A is known not to be NULL
        cleared == [m EXCEPT !.heap.A.status = "NULL"]
        \* GB_NEW: the header of a nrows-by-ncols matrix by column, not
        \* hypersparse, without content
        header == [h.A EXCEPT !.status = "live", !.type = cl.type,
                              !.vlen = cl.nrows, !.vdim = cl.ncols,
                              !.is_csc = TRUE, !.is_hyper = FALSE,
                              !.magic = "GB_MAGIC2"]
        Free(w, handle) ==
            IF cl[handle] = "NULL" THEN w
            ELSE [w EXCEPT !.heap[handle] = "NULL",
                           !.heap[h[handle]].allocated = FALSE]
        taken == [m EXCEPT !.heap.A = Imported(header, cl.ncols, cl.nvals,
                                               h.Ap),
                           !.heap.Ap = "NULL"]
        pdata == h[h.Ap].data
    IN  IF cl.A = "NULL" THEN Return(m, "GrB_NULL_POINTER", "fail")
        ELSE IF cl.type = "NULL"
        THEN Return(cleared, "GrB_NULL_POINTER", "fail")
        ELSE IF cl.Ap = "NULL"
        THEN Return(cleared, "GrB_NULL_POINTER", "fail")
        ELSE IF cl.nvals > 0 /\ (cl.Ai = "NULL" \/ cl.Ax = "NULL")
        THEN Return(cleared, "GrB_NULL_POINTER", "fail")
        ELSE IF cl.fail = "new"
        THEN Return(cleared, "GrB_OUT_OF_MEMORY", "fail")
        ELSE IF cl.nvals = 0
        THEN Return(Free(Free(taken, "Ai"), "Ax"), "GrB_SUCCESS", "import")
        ELSE Return([taken EXCEPT
                        !.heap.A.i = h.Ai, !.heap.A.x = h.Ax,
                        !.heap.Ai = "NULL", !.heap.Ax = "NULL",
                        !.heap.A.nvec_nonempty =
                            Cardinality({j \in 1..cl.ncols :
                                            pdata[j] < pdata[j + 1]})],
                    "GrB_SUCCESS", "import")


-----------------------------------------------------------------------------
(* GxB_Matrix_export_CSC: the content of a matrix, by column *)

\* A matrix here also has its zombies (cells of e whose entry is deleted),
\* the jumbled flag and its format: "sparse", "hyper", "bitmap" or "full".

WaitIfPending(jumbled, X) ==
    IF X.pend # Empty \/ X.zombies # {}
    THEN [X EXCEPT !.e = [t \in (DOMAIN X.e \ X.zombies) \cup DOMAIN X.pend |->
                             IF t \in DOMAIN X.pend THEN X.pend[t]
                             ELSE X.e[t]],
                   !.zombies = {}, !.pend = Empty, !.jumbled = FALSE]
    ELSE X

\* finish any pending work: GB_MATRIX_WAIT when the exported matrix cannot
\* be jumbled, else GB_MATRIX_WAIT_IF_PENDING_OR_ZOMBIES.  GB_Matrix_wait
\* removes the zombies, assembles the pending tuples and sorts the vectors
WaitFor(jumbled, X) ==
    IF jumbled = "NULL"
    THEN [WaitIfPending(jumbled, X) EXCEPT !.jumbled = FALSE]
    ELSE WaitIfPending(jumbled, X)

GxB_Matrix_export_CSC(m) ==
    LET cl == m.call
        X == m.heap["A"]
        Flipped(cells) == {Swap(t) : t \in cells}
        \* GB_transpose (NULL, NULL, true, *A, ...): A = A', in place
        transposed ==
            IF X.is_csc THEN X
            ELSE [X EXCEPT !.is_csc = TRUE, !.vlen = X.vdim, !.vdim = X.vlen,
                           !.e = [t \in Flipped(DOMAIN X.e) |-> X.e[Swap(t)]],
                           !.pend = [t \in Flipped(DOMAIN X.pend) |->
                                        X.pend[Swap(t)]],
                           !.zombies = Flipped(X.zombies)]
        waited == WaitFor(cl.jumbled, transposed)
        \* GB_convert_any_to_sparse
        sparse == [waited EXCEPT !.sparsity = "sparse"]
        At(w, Y) == [w EXCEPT !.heap["A"] = Y]
    IN  IF cl.A = "NULL" \/ X.status = "NULL"
        THEN Return(m, "GrB_NULL_POINTER", "fail")
        ELSE IF ~X.is_csc /\ cl.fail = "transpose"
        THEN Return(m, "GrB_OUT_OF_MEMORY", "fail")
        ELSE IF cl.fail = "wait" /\ waited # transposed
        THEN Return(At(m, transposed), "GrB_OUT_OF_MEMORY", "fail")
        ELSE IF cl.fail = "convert" /\ sparse # waited
        THEN Return(At(m, waited), "GrB_OUT_OF_MEMORY", "fail")
        ELSE IF cl.fail = "export"
        THEN Return(At(m, sparse), "GrB_OUT_OF_MEMORY", "fail")
        \* GB_export: the content goes to the caller and the header of
        \* the matrix is freed
        ELSE Return([m EXCEPT !.heap["out"] = sparse,
                              !.heap["A"] = [X EXCEPT !.status = "NULL"],
                              !.loc.jumbled =
                                  IF cl.jumbled = "NULL" THEN "unset"
                                  ELSE IF sparse.jumbled THEN "true"
                                  ELSE "false"],
                    "GrB_SUCCESS", "export")


-----------------------------------------------------------------------------
(* GB_shallow_op: C = op (A), a shallow copy where it can be *)

\* GB_apply_op: the entry v of A, number k, is typecast to the type of
\* the input of the operator it is bound to, and z = op1 (v),
\* z = op2 (scalar, v) with bind1st or z = op2 (v, scalar); ANY takes v
GB_apply_op(op, unary, bind1st, v, atype, k) ==
    LET a == GB_cast(v, IF unary \/ ~bind1st THEN op.xtype ELSE op.ytype,
                     atype)
        scalar == <<"scalar">>
    IN  CASE GB_OPCODE_IS_POSITIONAL(op.opcode) -> <<"pos", k>>
          [] op.opcode \in {"IDENTITY", "ANY"} -> a
          [] op.opcode = "FIRST" -> IF bind1st THEN scalar ELSE a
          [] op.opcode = "SECOND" -> IF bind1st THEN a ELSE scalar
          [] unary -> <<op.opcode, a>>
          [] OTHER -> IF bind1st THEN <<op.opcode, scalar, a>>
                      ELSE <<op.opcode, a, scalar>>

PureShallowAnyType(Atype, op_intype, opcode, binop_bind1st) ==
    \/ opcode \in {"IDENTITY", "ANY"}
    \/ opcode = "FIRST" /\ ~binop_bind1st
    \/ opcode = "SECOND" /\ binop_bind1st

\* no work is done at all: C is a pure shallow copy
PureShallow(Atype, op_intype, opcode, binop_bind1st) ==
    /\ Atype = op_intype
    /\ \/ opcode = "IDENTITY"
       \/ opcode = "ANY"
       \/ opcode = "FIRST" /\ ~binop_bind1st
       \/ opcode = "SECOND" /\ binop_bind1st

\* the vector pointers of A given to C without the shallow flags
OwnedPattern(Co, Ao) ==
    [Co EXCEPT !.p = Ao.p, !.h = Ao.h, !.plen = Ao.plen, !.nvec = Ao.nvec,
               !.nvec_nonempty = Ao.nvec_nonempty]

\* make a shallow copy of the vector pointers
ShallowPattern(Co, Ao) ==
    [Co EXCEPT !.p_shallow = TRUE, !.h_shallow = TRUE,
               !.p = Ao.p, !.h = Ao.h, !.plen = Ao.plen, !.nvec = Ao.nvec,
               !.nvec_nonempty = Ao.nvec_nonempty]

GB_shallow_op(m) ==
    LET cl == m.call
        Ao == m.heap["A"]
        unary == cl.op1.opcode # "NULL"
        op == IF unary THEN cl.op1 ELSE cl.op2
        op_intype == IF GB_OPCODE_IS_POSITIONAL(op.opcode) THEN "NULL"
                     ELSE IF unary THEN op.xtype
                     ELSE IF cl.binop_bind1st THEN op.xtype ELSE op.ytype
        anz == Len(Ao.xdata)
        Gives(Co, info, path) == Return([m EXCEPT !.heap["C"] = Co], info, path)
        none == [m.heap["C"] EXCEPT !.status = "NULL"]
        \* GB_new and the shallow copy of the vector pointers
        header == ShallowPattern(
                      [none EXCEPT !.status = "live", !.type = op.ztype,
                                   !.vlen = Ao.vlen, !.vdim = Ao.vdim,
                                   !.is_csc = cl.C_is_csc,
                                   !.is_hyper = (Ao.h # "NULL")],
                      Ao)
        pattern == [header EXCEPT !.i = Ao.i, !.i_shallow = TRUE]
        \* C as it is when the values cannot be had: C->x is NULL if the
        \* allocation failed, else the space allocated
        failed == [pattern EXCEPT !.nzmax = IF anz > 1 THEN anz ELSE 1,
                                  !.x = IF cl.fail = "malloc" THEN "NULL"
                                        ELSE "Cx",
                                  !.x_shallow = FALSE]
        \* GB_Matrix_free (&C): the arrays of C that are not shallow are
        \* freed, and the header
        Shallow == [p |-> "p_shallow", h |-> "h_shallow", i |-> "i_shallow",
                    x |-> "x_shallow"]
        Frees(Co) == {<<"GB_FREE", Co[f]>> :
                         f \in {g \in DOMAIN Shallow :
                                   Co[g] # "NULL" /\ ~Co[Shallow[g]]}}
    IN  IF cl.fail = "new" THEN Gives(none, "GrB_OUT_OF_MEMORY", "fail")
        ELSE IF Ao.nzmax = 0
        THEN Gives([header EXCEPT !.nzmax = 0, !.i = "NULL", !.x = "NULL",
                                  !.i_shallow = FALSE, !.x_shallow = FALSE],
                   "GrB_SUCCESS", "empty")
        ELSE IF PureShallow(Ao.type, op_intype, op.opcode, cl.binop_bind1st)
        THEN Gives([pattern EXCEPT !.nzmax = Ao.nzmax, !.x = Ao.x,
                                   !.xdata = Ao.xdata, !.x_shallow = TRUE],
                   "GrB_SUCCESS", "shallow")
        ELSE IF cl.fail \in {"malloc", "apply"}
        THEN Return([m EXCEPT !.heap["C"] = none,
                              !.ghost.ran = @ \cup Frees(failed)],
                    "GrB_OUT_OF_MEMORY", "fail")
        ELSE Gives([pattern EXCEPT
                       !.nzmax = IF anz > 1 THEN anz ELSE 1,
                       !.x = "Cx", !.x_shallow = FALSE,
                       !.xdata = [k \in 1..anz |->
                                     GB_apply_op(op, unary, cl.binop_bind1st,
                                                 Ao.xdata[k], Ao.type, k)]],
                   "GrB_SUCCESS", "apply")


-----------------------------------------------------------------------------
(* GB_mex_about7: the matrix check on altered matrices *)

\* The heap holds the matrices the test makes, by the name of their block;
\* the hyper-hash Y of a matrix is a matrix of its own.

CheckAlwaysOK(h, a) == "GrB_SUCCESS"

\* The check of the matrix in block a that GxB_Matrix_fprint runs: the
\* magic, the sizes of p and h, and the hyper-hash Y, which only a
\* hypersparse matrix may have and which must be a valid sparse uint64
\* matrix of the right shape that maps every index of h to its position
GB_matvec_check(h, a) ==
    LET X == h[a]
        Basic(Z) ==
            /\ Z.status = "live" /\ Z.magic = "GB_MAGIC"
            /\ Z.p_size >= 8 * (Z.plen + 1)
            /\ Z.sparsity = "hyper" => Z.h_size >= 8 * Z.plen
        Y == h[X.Y]
    IN  IF ~Basic(X) THEN "GrB_INVALID_OBJECT"
        ELSE IF X.Y = "NULL" THEN "GrB_SUCCESS"
        ELSE IF X.sparsity # "hyper" THEN "GrB_INVALID_OBJECT"
        ELSE IF ~Basic(Y) THEN "GrB_INVALID_OBJECT"
        ELSE IF \/ Y.type # "uint64" \/ Y.sparsity # "sparse"
                \/ Y.vlen # X.vdim \/ Y.vdim \notin {1, 2, 4, 8}
                \/ Y.nvals # X.nvec \/ Y.Y # "NULL"
        THEN "GrB_INVALID_OBJECT"
        ELSE IF \A k \in 1..X.nvec :
                   \E q \in 1..Len(Y.i) : Y.i[q] = X.h[k] /\ Y.x[q] = k - 1
        THEN "GrB_SUCCESS"
        ELSE "GrB_INVALID_OBJECT"

HyperHashFreeAlways(h, a) ==
    [h EXCEPT ![h[a].Y].status = "freed", ![h[a].Y].magic = "GB_FREED",
              ![a].Y = "NULL", ![a].Y_shallow = FALSE]

\* GB_hyper_hash_free: the hyper-hash of the matrix in block a is freed,
\* unless it is shallow; a block that is freed already is not freed again
\* (its magic is not that of a matrix)
GB_hyper_hash_free(h, a) ==
    IF h[a].Y = "NULL" \/ h[a].Y_shallow \/ h[h[a].Y].status # "live"
    THEN [h EXCEPT ![a].Y = "NULL", ![a].Y_shallow = FALSE]
    ELSE [h EXCEPT ![h[a].Y].status = "freed", ![h[a].Y].magic = "GB_FREED",
                   ![a].Y = "NULL", ![a].Y_shallow = FALSE]

\* One statement of the test, or several that make a matrix; ub is what a
\* free through a dangling pointer does: nothing, since the magic of the
\* freed block is not that of a matrix, or the end of the program
mexFunction(m, ub) ==
    LET h == m.heap
        Ap == m.loc.A
        At(line) == m.pc = line
        Goes(w, line) == [w EXCEPT !.pc = line]
        \* GrB_Matrix_new, GxB_Matrix_Option_set, GrB_Matrix_setElement,
        \* GrB_Matrix_wait: a 100-by-100 matrix with the entry (0,0)
        Made(sparsity, y) ==
            [status |-> "live", magic |-> "GB_MAGIC", type |-> "fp64",
             vlen |-> 100, vdim |-> 100, sparsity |-> sparsity,
             nvec |-> IF sparsity = "hyper" THEN 1 ELSE 100,
             plen |-> IF sparsity = "hyper" THEN 1 ELSE 100,
             h |-> IF sparsity = "hyper" THEN <<0>> ELSE <<>>,
             p_size |-> IF sparsity = "hyper" THEN 16 ELSE 808,
             h_size |-> IF sparsity = "hyper" THEN 8 ELSE 0,
             Y |-> y, Y_shallow |-> FALSE, i |-> <<0>>, x |-> <<12>>,
             nvals |-> 1]
        \* the hyper-hash GrB_Matrix_wait builds: index 0 is at position 0
        Hash == [Made("sparse", "NULL") EXCEPT
                    !.type = "uint64", !.vdim = 1, !.nvec = 1, !.plen = 1,
                    !.p_size = 16, !.x = <<0>>]
        \* GrB_Matrix_new: an empty matrix
        Fresh == [Made("hyper", "NULL") EXCEPT
                     !.nvec = 0, !.h = <<>>, !.i = <<>>, !.x = <<>>,
                     !.nvals = 0]
        New(who, a, sparsity, y, line) ==
            LET made == [h EXCEPT
                            ![a] = Made(sparsity,
                                        IF sparsity = "hyper" THEN y
                                        ELSE "NULL"),
                            ![y] = IF sparsity = "hyper" THEN Hash ELSE @]
            IN  Goes([m EXCEPT !.heap = made, !.loc[who] = a,
                               !.loc.valid = IF who = "A" THEN made ELSE @],
                     line)
        \* OK and ERR: the test stops unless the check returns what is
        \* expected
        Check(a, expected, line) ==
            LET info == GB_matvec_check(h, a)
            IN  IF info = expected THEN Goes([m EXCEPT !.loc.info = info], line)
                ELSE Return(m, info, "stopped")
        \* GrB_Matrix_free (&X)
        Free(who, line) ==
            LET a == m.loc[who]
                dangling == h[a].status # "live"
                               \/ (/\ h[a].Y # "NULL" /\ ~h[a].Y_shallow
                                   /\ h[h[a].Y].status # "live")
                freed == IF h[a].status # "live" THEN h
                         ELSE [GB_hyper_hash_free(h, a) EXCEPT
                                  ![a].status = "freed",
                                  ![a].magic = "GB_FREED"]
            IN  IF dangling /\ ub = "crash" THEN Return(m, m.loc.info, "crashed")
                ELSE Goes([m EXCEPT !.heap = freed, !.loc[who] = "NULL"],
                          line)
        Set(w, line) == Goes(w, line)
        GB_aliased == h[Ap].Y # "NULL" /\ h[Ap].Y = h[m.loc.B].Y
    IN  CASE At("mexFunction") -> New("A", "A1", "hyper", "Y1", "47")
          [] At("47") -> Check(Ap, "GrB_SUCCESS", "50")
          [] At("50") -> Set([m EXCEPT !.loc.save = h[Ap].p_size,
                                       !.heap[Ap].p_size = 3], "53")
          [] At("53") -> Check(Ap, "GrB_INVALID_OBJECT", "54")
          [] At("54") -> Set([m EXCEPT !.heap[Ap].p_size = m.loc.save], "57")
          [] At("57") -> Set([m EXCEPT !.loc.save = h[Ap].h_size,
                                       !.heap[Ap].h_size = 3], "59")
          [] At("59") -> Check(Ap, "GrB_INVALID_OBJECT", "60")
          [] At("60") -> Set([m EXCEPT !.heap[Ap].h_size = m.loc.save], "63")
          [] At("63") -> Set([m EXCEPT !.heap[h[Ap].Y].magic = "GB_MAGIC2"],
                             "64")
          [] At("64") -> Check(Ap, "GrB_INVALID_OBJECT", "65")
          [] At("65") -> Set([m EXCEPT !.heap[h[Ap].Y].magic = "GB_MAGIC"],
                             "67")
          [] At("67") -> Set([m EXCEPT !.heap["YM"] = Fresh,
                                       !.loc.Y_mangled = "YM"], "68")
          [] At("68") -> Set([m EXCEPT !.heap = GB_hyper_hash_free(h, Ap)],
                             "69")
          [] At("69") -> Set([m EXCEPT !.heap[Ap].Y = m.loc.Y_mangled], "70")
          [] At("70") -> Check(Ap, "GrB_INVALID_OBJECT", "72")
          [] At("72") -> Free("A", "74")
          [] At("74") -> New("A", "A2", "sparse", "NULL", "78")
          [] At("78") -> Check(Ap, "GrB_SUCCESS", "80")
          [] At("80") -> Set([m EXCEPT !.heap[Ap].Y = m.loc.Y_mangled], "81")
          [] At("81") -> Check(Ap, "GrB_INVALID_OBJECT", "83")
          [] At("83") -> Free("Y_mangled", "84")
          [] At("84") -> Free("A", "86")
          [] At("86") -> New("A", "A3", "hyper", "Y3", "90")
          [] At("90") -> Check(Ap, "GrB_SUCCESS", "92")
          [] At("92") -> New("B", "B1", "hyper", "YB", "96")
          [] At("96") -> Set([m EXCEPT
                                 !.heap = GB_hyper_hash_free(h, m.loc.B)],
                             "97")
          [] At("97") -> Set([m EXCEPT !.heap[m.loc.B].Y = h[Ap].Y,
                                       !.heap[m.loc.B].Y_shallow = TRUE],
                             "99")
          [] At("99") -> Check(m.loc.B, "GrB_SUCCESS", "100")
          [] At("100") -> IF GB_aliased THEN Goes(m, "101")
                          ELSE Return(m, m.loc.info, "stopped")
          [] At("101") -> Free("B", "103")
          [] At("103") -> Check(Ap, "GrB_SUCCESS", "105")
          [] At("105") -> Set([m EXCEPT !.heap[h[Ap].Y].i[1] = 99], "106")
          [] At("106") -> Check(Ap, "GrB_INVALID_OBJECT", "107")
          [] At("107") -> Set([m EXCEPT !.heap[h[Ap].Y].i[1] = 0], "109")
          [] At("109") -> Set([m EXCEPT !.heap[h[Ap].Y].x[1] = 99], "111")
          [] At("111") -> Check(Ap, "GrB_INVALID_OBJECT", "113")
          [] At("113") -> Return(Free("A", "done"), "GrB_SUCCESS", "about7")


\* The calls of the functions, in families: the build (GBCOMPACT,
\* GB_DISABLE of the kernel, GB_JIT_ENABLED), the operator and the types,
\* and what a kernel or an allocation answers
KernelInputs(fn) ==
    LET Square == <<Dim, Dim>>
        Of(k, s, type, fill) ==
            FromLogical(type, Square, TRUE,
                        Content(k, [s |-> s, cdims |-> Square], Square, fill,
                                FALSE),
                        FALSE)
        Operands(s, ctype, atype) ==
            [x \in {"C", "A"} |->
                IF x = "C" THEN Of("C", s, ctype, "full")
                ELSE Of("A", s, atype, "combo")]
        AccumSparse ==
            {[call |-> [fn |-> fn,
                        accum |-> BinaryOp(opcode, "fp64"),
                        GBCOMPACT |-> f[1], GB_DISABLE |-> f[2],
                        fail |-> fail],
              heap |-> Operands(s, "fp64", atype)] :
                s \in {2, 3, 6, 14}, opcode \in {"FIRST", "RDIV", "USER"},
                atype \in {"fp64", "int8"}, f \in BOOLEAN \X BOOLEAN,
                fail \in {"none", "slice"}}
        Subassign ==
            {[call |-> [fn |-> fn,
                        accum |-> BinaryOp(opcode, "fp64"),
                        iso |-> f[1], GB_JIT_ENABLED |-> f[2], jit |-> jit],
              heap |-> Operands(s, "fp64", atype)] :
                s \in {2, 3, 6, 14}, opcode \in {"FIRST", "RDIV", "USER"},
                atype \in {"fp64", "int8"}, f \in BOOLEAN \X BOOLEAN,
                jit \in {"GrB_SUCCESS", "GrB_NO_VALUE", "GrB_OUT_OF_MEMORY"}}
        \* the matrix k with an entry in the cells whose bit is set in
        \* has, nonzero where the bit is set in nz
        Bits(k, type, has, nz) ==
            LET Bit(n, t) == (n \div (2 ^ ((t[1] * Dim + t[2]) % 4))) % 2 = 1
            IN  FromLogical(type, Square, TRUE,
                            [t \in {u \in (0..(Dim - 1)) \X (0..(Dim - 1)) :
                                       Bit(has, u)} |->
                                In(k, t[1], t[2], Bit(nz, t))],
                            FALSE)
        \* the types of A, of B and of the operators
        Typings == {<<"fp64", "fp64", "fp64">>, <<"int8", "fp64", "fp64">>,
                    <<"fp64", "int8", "fp64">>, <<"int8", "int8", "fp64">>}
        Dot ==
            {[call |-> [fn |-> fn,
                        semiring |->
                            [add |-> BinaryOp(addop, ty[3]),
                             mult |-> BinaryOp(opcode, ty[3]),
                             object_kind |-> kind],
                        flipxy |-> f[1], GBCOMPACT |-> f[2],
                        M |-> mask[1], Mask_comp |-> mask[2],
                        kernel |-> IF fail = "kernel"
                                   THEN "GrB_OUT_OF_MEMORY"
                                   ELSE "GrB_SUCCESS",
                        user |-> IF fail = "user" THEN "GrB_OUT_OF_MEMORY"
                                 ELSE "GrB_SUCCESS",
                        fail |-> fail],
              heap |-> [x \in {"C", "A", "B", "M"} |->
                           CASE x = "C" -> NoObject
                             [] x = "A" -> Bits("A", ty[1], p[1], 15)
                             [] x = "B" -> Bits("B", ty[2], p[2], 15)
                             [] x = "M" -> Bits("M", "bool", p[3], p[4])]] :
                p \in {<<15, 15, 7, 3>>, <<6, 11, 5, 5>>, <<9, 9, 15, 10>>},
                opcode \in {"TIMES", "FIRST", "SECOND", "USER"},
                addop \in {"PLUS", "USER"},
                kind \in {"GB_BUILTIN", "GB_USER_COMPILED"},
                ty \in Typings, f \in BOOLEAN \X BOOLEAN,
                mask \in {<<"NULL", FALSE>>, <<"M", FALSE>>, <<"M", TRUE>>},
                fail \in {"none", "alloc", "kernel", "user"}}
        \* the products of one C(i,j) and the monoid that adds them, whose
        \* terminal value, if it has one, is any value of its type
        DotLoop ==
            LET Values(type) == IF type = "bool" THEN {0, 1}
                                ELSE {-128, 0, 1, 127}
                Monoids == ({"MIN", "MAX", "PLUS", "TIMES"} \X {"int8"})
                           \cup ({"LOR", "LAND", "LXOR", "EQ"} \X {"bool"})
            IN  UNION {{[call |-> [fn |-> fn,
                                   add |-> [opcode |-> o[1], type |-> o[2],
                                            terminal |-> terminal],
                                   terms |-> terms],
                         heap |-> Empty] :
                           terminal \in {<<>>}
                               \cup {<<v>> : v \in Values(o[2])},
                           terms \in UNION {[1..n -> Values(o[2])] :
                                               n \in 1..MaxTerms}} :
                       o \in Monoids}
        \* the semirings of the kernels: the monoid with its identity and
        \* its terminal value, and the multiply operator with its type
        Semirings ==
            {[add |-> [opcode |-> q[1], type |-> q[2], identity |-> q[3],
                       terminal |-> q[4]],
              mult |-> [opcode |-> q[5], type |-> q[6]]] :
                q \in {<<"PLUS", "int8", 0, <<>>, "TIMES", "int8">>,
                       <<"MIN", "int8", 127, <<-128>>, "PLUS", "int8">>,
                       <<"MAX", "int8", -128, <<127>>, "MINUS", "int8">>,
                       <<"TIMES", "int8", 1, <<0>>, "PLUS", "int8">>,
                       <<"EQ", "bool", 1, <<>>, "GT", "int8">>,
                       <<"LOR", "bool", 0, <<1>>, "LAND", "bool">>,
                       <<"LXOR", "bool", 0, <<>>, "LAND", "bool">>,
                       <<"EQ", "bool", 1, <<>>, "LOR", "bool">>}}
        \* the matrix of the type with an entry in the cells whose bit is
        \* set in has, whose values are taken in turn from a list
        Valued(type, has, from) ==
            LET list == IF type = "bool" THEN <<1, 0, 1, 1, 0, 0>>
                        ELSE <<2, -1, 127, 0, -128, 1>>
                had == Bits("", type, has, 0)
            IN  [had EXCEPT !.e = [t \in DOMAIN had.e |->
                                      list[((from + t[1] * Dim + t[2]) % 6)
                                           + 1]]]
        Multiply ==
            {[call |-> [fn |-> fn, semiring |-> sr, M |-> mask[1],
                        ties |-> w[1], Sauna |-> w[2]],
              heap |-> [x \in {"A", "B", "M", "Cgus", "Cheap", "Cdot"} |->
                           CASE x = "A" ->
                                    Valued(sr.mult.type, p[1], p[2])
                             [] x = "B" ->
                                    Valued(sr.mult.type, p[3], p[4])
                             [] x = "M" ->
                                    Bits("M", "bool", mask[2], mask[3])
                             [] OTHER -> NoObject]] :
                sr \in Semirings,
                p \in {15, 7, 11, 6} \X (0..5) \X {15, 13, 9} \X {0, 3},
                mask \in {<<"NULL", 0, 0>>, <<"M", 15, 10>>, <<"M", 7, 3>>},
                w \in {<<"up", 0>>, <<"down", 1>>}}
        \* the arrays of the caller: p of ncols+1 column pointers, i of
        \* nvals row indices and x of nvals values, whatever they hold; a
        \* handle of the caller may be NULL, and then has no array
        Import ==
            LET nrows == Dim
                ncols == Dim - 1
                Array(handle, data) ==
                    [data |-> data, allocated |-> handle # "NULL"]
            IN  UNION {{[call |-> [fn |-> fn, A |-> a[1], type |-> a[2],
                                   nrows |-> nrows, ncols |-> ncols,
                                   nvals |-> nvals, Ap |-> a[3],
                                   Ai |-> a[4], Ax |-> a[5],
                                   fail |-> a[6]],
                         heap |-> [A |-> [status |-> "stale",
                                          type |-> "NULL", vlen |-> -1,
                                          vdim |-> -1, is_csc |-> FALSE,
                                          is_hyper |-> TRUE, h |-> "NULL",
                                          p |-> "NULL", i |-> "NULL",
                                          x |-> "NULL", nzmax |-> -1,
                                          plen |-> -1, nvec |-> -1,
                                          nvec_nonempty |-> -1,
                                          magic |-> "none"],
                                   Ap |-> IF a[3] = "NULL" THEN "NULL"
                                          ELSE "p",
                                   Ai |-> IF a[4] = "NULL" THEN "NULL"
                                          ELSE "i",
                                   Ax |-> IF a[5] = "NULL" THEN "NULL"
                                          ELSE "x",
                                   p |-> Array(a[3], pd),
                                   i |-> Array(a[4], id),
                                   x |-> Array(a[5],
                                               [k \in 1..nvals |-> 10 + k])]] :
                           a \in {"NULL", "A"} \X {"NULL", "fp64"}
                                   \X {"NULL", "Ap"} \X {"NULL", "Ai"}
                                   \X {"NULL", "Ax"} \X {"none", "new"},
                           pd \in [1..(ncols + 1) -> 0..nvals],
                           id \in [1..nvals -> 0..nrows]} :
                       nvals \in 0..MaxVals}
        \* the matrices to export: by row or by column, in every format,
        \* with zombies, pending tuples and jumbled vectors for a sparse
        \* or hypersparse one
        Export ==
            LET Given(has, sparsity, is_csc, work) ==
                    LET Ao == Bits("A", "fp64", has, 5)
                    IN  [status |-> "live", type |-> "fp64",
                         vlen |-> Dim, vdim |-> Dim, is_csc |-> is_csc,
                         e |-> Ao.e,
                         pend |-> [t \in DOMAIN Bits("P", "fp64", work[1],
                                                      0).e |->
                                      In("P", t[1], t[2], TRUE)],
                         zombies |-> DOMAIN Ao.e
                                        \cap DOMAIN Bits("Z", "fp64",
                                                         work[2], 0).e,
                         jumbled |-> work[3], sparsity |-> sparsity]
                Works(sparsity) ==
                    IF sparsity \in {"bitmap", "full"}
                    THEN {<<0, 0, FALSE>>}
                    ELSE {0, 5, 9} \X {0, 2, 10} \X BOOLEAN
            IN  UNION {{[call |-> [fn |-> fn, A |-> a[1], jumbled |-> a[2],
                                   fail |-> a[3]],
                         heap |-> [x \in {"A", "out"} |->
                                      IF x = "out" THEN NoObject
                                      ELSE Given(IF f[1] = "full" THEN 15
                                                 ELSE has, f[1], f[2], work)]] :
                           a \in {"NULL", "A"} \X {"NULL", "jumbled"}
                                   \X {"none", "transpose", "wait", "convert",
                                       "export"},
                           has \in {15, 6, 11},
                           work \in Works(f[1])} :
                       f \in {"sparse", "hyper", "bitmap", "full"}
                               \X BOOLEAN}
        \* the operators and matrices of GB_shallow_op: the built-in
        \* operators have one type, a user-defined one any types; A has
        \* no space for entries, space without entries, or entries
        Shallow ==
            LET Types == {"fp64", "int8"}
                Unary(opcode, x, z) ==
                    [opcode |-> opcode, xtype |-> x, ytype |-> "NULL",
                     ztype |-> z, faulty |-> FALSE]
                Ops == {<<Unary(o, t, t), NoOp>> :
                           o \in {"IDENTITY", "AINV"}, t \in Types}
                       \cup {<<Unary("USER", t[1], t[2]), NoOp>> :
                                 t \in Types \X Types}
                       \cup {<<NoOp, BinaryOp(o, t)>> :
                                 o \in {"FIRST", "SECOND", "ANY", "PLUS",
                                        "FIRSTI"},
                                 t \in Types}
                       \cup {<<NoOp, [BinaryOp("USER", t[1]) EXCEPT
                                         !.ytype = t[2]]>> :
                                 t \in Types \X Types}
                Given(type, nzmax, anz, h) ==
                    [status |-> "live", type |-> type, vlen |-> Dim,
                     vdim |-> Dim, is_csc |-> TRUE, p |-> "Ap", h |-> h,
                     i |-> IF nzmax = 0 THEN "NULL" ELSE "Ai",
                     x |-> IF nzmax = 0 THEN "NULL" ELSE "Ax",
                     xdata |-> [k \in 1..anz |-> In("A", k - 1, 0, k = 1)],
                     nzmax |-> nzmax, p_shallow |-> FALSE,
                     h_shallow |-> FALSE, i_shallow |-> FALSE,
                     x_shallow |-> FALSE, is_hyper |-> h # "NULL",
                     plen |-> IF h # "NULL" THEN 1 ELSE Dim,
                     nvec |-> IF h = "NULL" THEN Dim
                              ELSE IF anz > 0 THEN 1 ELSE 0,
                     nvec_nonempty |-> IF nzmax > anz THEN -1
                                       ELSE IF anz > 0 THEN 1 ELSE 0]
            IN  {[call |-> [fn |-> fn, op1 |-> o[1], op2 |-> o[2],
                            binop_bind1st |-> f[1], C_is_csc |-> f[2],
                            fail |-> fail],
                  heap |-> [x \in {"A", "C"} |->
                               IF x = "A"
                               THEN Given(type, size[1], size[2], h)
                               ELSE [Given("NULL", 0, 0, "NULL") EXCEPT
                                        !.status = "unset", !.p = "NULL",
                                        !.plen = 0, !.nvec = 0]]] :
                    o \in Ops, f \in BOOLEAN \X BOOLEAN, type \in Types,
                    size \in {<<0, 0>>, <<2, 0>>, <<2, 2>>},
                    h \in {"NULL", "Ah"},
                    fail \in {"none", "new", "malloc", "apply"}}
        \* the test program, which has no input: no matrix is made yet
        About7 ==
            {[call |-> [fn |-> fn],
              heap |-> [a \in {"A1", "Y1", "YM", "A2", "A3", "Y3", "B1",
                               "YB", "NULL"} |->
                           [status |-> "none", magic |-> "none",
                            type |-> "NULL", vlen |-> 0, vdim |-> 0,
                            sparsity |-> "none", nvec |-> 0, plen |-> 0,
                            h |-> <<>>, p_size |-> 0, h_size |-> 0,
                            Y |-> "NULL", Y_shallow |-> FALSE, i |-> <<>>,
                            x |-> <<>>, nvals |-> 0]]]}
    IN  CASE fn = "GB_dense_accum_sparse" -> AccumSparse
          [] fn = "mexFunction" -> About7
          [] fn = "GB_shallow_op" -> Shallow
          [] fn = "GxB_Matrix_export_CSC" -> Export
          [] fn = "GxB_Matrix_import_CSC" -> Import
          [] fn = "GB_AgusB" -> Multiply
          [] fn = "GB_subassign_23" -> Subassign
          [] fn = "GB_AxB_dot" -> Dot
          [] fn = "GB_AxB_dot_meta" -> DotLoop

\* a call of one of the functions, or of GB_ewise with dense A and
\* B, where the kernel of GB_dense_ewise3_noaccum may decline
InitKernels ==
    \/ \E fn \in {"GB_dense_accum_sparse", "GB_subassign_23", "GB_AxB_dot",
                    "GB_AxB_dot_meta", "GB_AgusB", "GxB_Matrix_import_CSC",
                    "GxB_Matrix_export_CSC", "GB_shallow_op", "mexFunction"} :
          \E k \in KernelInputs(fn) :
             Starts(k.call, k.heap,
                    [info |-> "none", mask_applied |-> "unset",
                     A_is_pattern |-> FALSE, B_is_pattern |-> FALSE,
                     cij |-> 0, k |-> 1, jumbled |-> "unset", A |-> "NULL",
                     B |-> "NULL", Y_mangled |-> "NULL", save |-> 0,
                     valid |-> Empty],
                    k.call.fn)
    \/ \E p \in EwiseInputs[5], fail \in {"none", "decline"} :
          Starts(CallOf([p EXCEPT !.fail = fail]), HeapOf(p),
                 LocalsOf(CallOf(p)), "check")

NextKernels ==
    \/ pc = "GB_dense_accum_sparse" /\ Becomes(GB_dense_accum_sparse(Machine))
    \/ pc = "GB_subassign_23" /\ Becomes(GB_subassign_23(Machine))
    \/ pc = "GB_AxB_dot" /\ Becomes(GB_AxB_dot(Machine))
    \/ pc = "GB_AxB_dot_meta" /\ Becomes(DotStep(Machine))
    \/ /\ pc = "GxB_Matrix_export_CSC"
       /\ Becomes(GxB_Matrix_export_CSC(Machine))
    \/ pc = "GB_shallow_op" /\ Becomes(GB_shallow_op(Machine))
    \/ /\ "YM" \in DOMAIN heap /\ pc # "done"
       /\ \E ub \in {"nothing", "crash"} : Becomes(mexFunction(Machine, ub))
    \/ /\ pc = "GxB_Matrix_import_CSC"
       /\ Becomes(GxB_Matrix_import_CSC(Machine))
    \/ /\ pc = "GB_AgusB"
       /\ Becomes([Machine EXCEPT
                      !.heap["Cgus"] =
                          GB_AgusB(heap["A"], heap["B"], Deref(heap, call.M),
                                   call.semiring, call.Sauna),
                      !.pc = "GB_AheapB"])
    \/ /\ pc = "GB_AheapB"
       /\ Becomes([Machine EXCEPT
                      !.heap["Cheap"] =
                          GB_AheapB(heap["A"], heap["B"], Deref(heap, call.M),
                                    call.semiring, call.ties),
                      !.pc = "GB_AdotB"])
    \/ /\ pc = "GB_AdotB"
       /\ LET AT == [heap["A"] EXCEPT
                        !.vlen = heap["A"].vdim, !.vdim = heap["A"].vlen,
                        !.e = [t \in {Swap(u) : u \in DOMAIN heap["A"].e} |->
                                  heap["A"].e[Swap(t)]]]
          IN  Becomes(Return([Machine EXCEPT
                                 !.heap["Cdot"] =
                                     GB_AdotB(AT, heap["B"],
                                              Deref(heap, call.M), FALSE,
                                              call.semiring)],
                             "GrB_SUCCESS", "kernels"))
    \/ NextEwise

SpecKernels == InitKernels /\ [][NextKernels]_vars


-----------------------------------------------------------------------------
(* The semirings GB_AxB_semiring_builtin is asked about *)

\* The built-in operators; of these EQ, NE, GT, LT, GE and LE give a
\* boolean whatever the type of x and y
\* x and y are booleans; a and b are of the type of the inputs of the
\* multiply operator
SemiringInputs(xytype) ==
    LET Opcodes == {"FIRST", "SECOND", "MIN", "MAX", "PLUS", "MINUS",
                    "RMINUS", "TIMES", "DIV", "RDIV", "ISEQ", "ISNE",
                    "ISGT", "ISLT", "ISGE", "ISLE", "EQ", "NE", "GT", "LT",
                    "GE", "LE", "LOR", "LAND", "LXOR"}
        ZtypeOf(opcode, type) ==
            IF opcode \in {"EQ", "NE", "GT", "LT", "GE", "LE"} THEN "bool"
            ELSE type
        Operand(type) == Object("live", type, Dim, Dim, TRUE, Empty, Empty)
    IN  {[call |-> [fn |-> "GB_AxB_semiring_builtin",
                    semiring |->
                        [add |-> BinaryOp(addop, ZtypeOf(multop, xytype)),
                         mult |-> [BinaryOp(multop, xytype) EXCEPT
                                      !.ztype = ZtypeOf(multop, xytype)],
                         object_kind |-> "GB_BUILTIN"],
                    flipxy |-> f[1], A_is_pattern |-> f[2],
                    B_is_pattern |-> FALSE, x |-> v[1], y |-> v[2],
                    a |-> IF xytype = "bool" THEN v[1] ELSE w[1],
                    b |-> IF xytype = "bool" THEN v[2] ELSE w[2]],
          heap |-> [q \in {"A", "B"} |->
                       IF q = "A" THEN Operand(atype)
                       ELSE Operand(xytype)]] :
            multop \in Opcodes \cup {"USER"},
            addop \in {"MIN", "MAX", "PLUS", "TIMES", "LOR", "LAND", "LXOR",
                       "EQ", "USER"},
            atype \in {"bool", "int8"},
            f \in BOOLEAN \X BOOLEAN, v \in {0, 1} \X {0, 1},
            w \in {-1, 0, 2} \X {-1, 0, 2}}

InitSemiring ==
    \E xytype \in {"bool", "int8"} : \E k \in SemiringInputs(xytype) :
       Starts(k.call, k.heap, [builtin |-> FALSE], k.call.fn)

\* the function up to the renaming, and then the flipxy
NextSemiring ==
    \/ /\ pc = "GB_AxB_semiring_builtin"
       /\ LET r == SemiringRenamed(heap["A"], call.A_is_pattern, heap["B"],
                                   call.B_is_pattern, call.semiring,
                                   call.flipxy)
          IN  Becomes([Machine EXCEPT !.loc = r,
                                      !.pc = IF r.builtin THEN "flipxy"
                                             ELSE "done"])
    \/ /\ pc = "flipxy"
       /\ Becomes([Machine EXCEPT !.loc = HandleFlipxy(loc, call.flipxy),
                                  !.ghost.renamed = loc.mult_opcode,
                                  !.pc = "done"])

SpecSemiring == InitSemiring /\ [][NextSemiring]_vars


-----------------------------------------------------------------------------
(* The operands GB_emult_template is run on *)

\* the length of the long vectors: long enough for a vector with two
\* entries to be searched in one that is much denser and not dense
VlenLong == 2 * GB_MUCH_DENSER + 2

\* the value of X(i,j): the entry itself, so that no two entries agree
ValuesOf(name, vlen) ==
    [c \in (0..(vlen - 1)) \X (0..(NVec - 1)) |-> <<name, c[1], c[2]>>]

\* vector j of A is a0 without its indices below j, vector j of B is b0
\* without its j last indices, and every vector of M is m0
Leading(a0, vlen) == [j \in 0..(NVec - 1) |-> {i \in a0 : i >= j}]
Trailing(b0, vlen) == [j \in 0..(NVec - 1) |-> {i \in b0 : i < vlen - j}]
Same(m0) == [j \in 0..(NVec - 1) |-> m0]

\* The operands, in four families.  tasks is "one" for a single coarse
\* task and "any" for every task list; hyper names the hypersparse
\* operands.
\* 1. short vectors, one coarse task: every pattern of A(:,0) and B(:,0),
\*    and no mask, a structural mask whose values are all false, or a
\*    valued mask (mv[i] = 2: M(i,j) is not present);
\* 2. short vectors, every pattern, without a mask or with a mask with
\*    every entry present, true at the even indices: every task list;
\* 3. the same with hypersparse operands and one coarse task;
\* 4. long vectors: one operand has every index but h, the other one or
\*    two indices at the ends of the vector or next to h.
EmultInputs ==
    LET Input(vlen, a0, b0, mask, m0, mval, hyper, tasks) ==
            [vlen |-> vlen, a0 |-> a0, b0 |-> b0, mask |-> mask, m0 |-> m0,
             mval |-> mval, hyper |-> hyper, tasks |-> tasks]
        SmallI == 0..(VlenSmall - 1)
        Patterns == (SUBSET SmallI) \X (SUBSET SmallI)
        Alternating == [i \in SmallI |-> (i + 1) % 2]
        HyperChoices == {{"B"}, {"A", "B", "M"}}
        I == 0..(VlenLong - 1)
        LongNear(h) ==
            {t \in SUBSET ({0, h - 1, h, h + 1, VlenLong - 1} \cap I) :
                Cardinality(t) \in 1..2}
    IN  <<{Input(VlenSmall, ab[1], ab[2], "none", {}, [i \in SmallI |-> 0],
                 {}, "one") : ab \in Patterns}
          \cup
          {Input(VlenSmall, ab[1], ab[2], "struct", m0,
                 [i \in SmallI |-> 0], {}, "one") :
              ab \in Patterns, m0 \in SUBSET SmallI}
          \cup
          {Input(VlenSmall, ab[1], ab[2], "valued",
                 {i \in SmallI : mv[i] < 2}, mv, {}, "one") :
              ab \in Patterns, mv \in [SmallI -> 0..2]},
          {Input(VlenSmall, ab[1], ab[2], "none", {}, Alternating, {},
                 "any") : ab \in Patterns}
          \cup
          {Input(VlenSmall, ab[1], ab[2], "valued", SmallI, Alternating, {},
                 "any") : ab \in Patterns},
          {Input(VlenSmall, ab[1], ab[2], "none", {}, Alternating, hyper,
                 "one") : ab \in Patterns, hyper \in HyperChoices}
          \cup
          {Input(VlenSmall, ab[1], ab[2], "valued", SmallI, Alternating,
                 hyper, "one") : ab \in Patterns, hyper \in HyperChoices},
          UNION {
              UNION {
                  {Input(VlenLong, I \ {h}, s, "none", {}, [i \in I |-> 0],
                         {}, "one"),
                   Input(VlenLong, s, I \ {h}, "none", {}, [i \in I |-> 0],
                         {}, "one")} :
                  s \in LongNear(h)} :
              h \in I}>>

InitEmult ==
    /\ \E family \in DOMAIN EmultInputs : \E in \in EmultInputs[family] :
          /\ A = Matrix(in.vlen, NVec, "A" \in in.hyper,
                        Leading(in.a0, in.vlen), ValuesOf("A", in.vlen))
          /\ B = Matrix(in.vlen, NVec, "B" \in in.hyper,
                        Trailing(in.b0, in.vlen), ValuesOf("B", in.vlen))
          /\ M = IF in.mask = "none" THEN NoMatrix
                 ELSE Matrix(in.vlen, NVec, "M" \in in.hyper, Same(in.m0),
                             [c \in (0..(in.vlen - 1)) \X (0..(NVec - 1)) |->
                                 in.mval[c[1]]])
          /\ Mask_struct = (in.mask = "struct")
          /\ TaskList \in (IF in.tasks = "one" THEN {OneTask} ELSE TaskLists)
    /\ Cp = [k \in 0..Cnvec |-> 0]
    /\ Ci = Empty
    /\ Cx = Empty
    /\ phase = 1
    /\ done = [taskid \in 0..(ntasks - 1) |-> FALSE]
    /\ writes = [taskid \in 0..(ntasks - 1) |-> {}]
    /\ reads = [taskid \in 0..(ntasks - 1) |-> {}]
    /\ counted = <<>>
    /\ filled = {}
    /\ heap = Empty /\ call = Empty /\ loc = Empty /\ ghost = Empty
    /\ pc = "idle"

NextEmult ==
    \/ \E taskid \in 0..(ntasks - 1) : Phase1Task(taskid)
    \/ TaskCumsum
    \/ \E taskid \in 0..(ntasks - 1) : Phase2Task(taskid)
    \/ EmultDone

SpecEmult == InitEmult /\ [][NextEmult]_vars

-----------------------------------------------------------------------------
(* Properties of GB_emult_template *)

\* A(i,j) and B(i,j) are present, and M(i,j) allows the entry
Expected(i, j) ==
    /\ EntryOf(A, i, j) >= 0
    /\ EntryOf(B, i, j) >= 0
    /\ \/ IsNull(M)
       \/ /\ EntryOf(M, i, j) >= 0
          /\ (Mask_struct \/ M.x[EntryOf(M, i, j)] # 0)

\* the places of Ci that hold C(i,j)
PlacesOf(i, j) ==
    {q \in DOMAIN Ci :
        /\ Ci[q] = i
        /\ \E k \in 0..(Cnvec - 1) :
              GBH_Ch(k) = j /\ Cp[k] <= q /\ q < Cp[k + 1]}

\* rdiv (x, y) = y / x
rdiv(x, y) == <<"div", y, x>>

\* C3: when GB_emult_template has finished, C(i,j) is present (once)
\* exactly when A(i,j) and B(i,j) are present and the mask, if any, has
\* M(i,j) present and (unless structural) true; its value is
\* rdiv (A(i,j), B(i,j)); and C has no other entry.
EmultIsIntersection ==
    phase = 3 =>
        /\ Cp[Cnvec] = Size(Ci)
        /\ \A j \in 0..(A.vdim - 1), i \in 0..(A.vlen - 1) :
              IF Expected(i, j)
              THEN \E q \in DOMAIN Ci :
                      /\ PlacesOf(i, j) = {q}
                      /\ Cx[q] = rdiv(A.x[EntryOf(A, i, j)],
                                      B.x[EntryOf(B, i, j)])
              ELSE PlacesOf(i, j) = {}

\* C3 witness: the template has finished and a task found two entries of
\* a vector of B by binary search in a much denser vector of A
EmultSearchedTwice ==
    /\ phase = 3
    /\ \E f \in filled : f.branch = "searchA" /\ Len(f.W) = 2

\* the positions of the writes of a vector in phase 2
WrittenAt(f) == {f.W[n].at : n \in 1..Len(f.W)}

\* C4 as stated: every vector or slice handled in phase 2 gets as many
\* entries as phase 1 counted, ends with pC == pC_end, is never written at
\* or past pC_end, and is skipped exactly when phase 1 counted none.
Phase2EndsAtpCend ==
    \A f \in filled :
        /\ Len(f.W) = counted[<<f.taskid, f.k>>]
        /\ f.pC = f.pC_end
        /\ \A q \in WrittenAt(f) : q < f.pC_end
        /\ f.skipped <=> (counted[<<f.taskid, f.k>>] = 0)

\* C4 amended: every vector or slice handled in phase 2 gets as many
\* entries as phase 1 counted, written at exactly the positions
\* pC..pC_end-1, and is skipped exactly when phase 1 counted none; pC ends
\* at pC_end in the search, merge and mask branches, while the three
\* dense branches write at pC + p and leave pC where it started.
Phase2WritesCount ==
    \A f \in filled :
        /\ Len(f.W) = counted[<<f.taskid, f.k>>]
        /\ Cardinality(WrittenAt(f)) = Len(f.W)
        /\ WrittenAt(f) = f.pC_start..(f.pC_end - 1)
        /\ f.skipped <=> (counted[<<f.taskid, f.k>>] = 0)
        /\ (f.branch \notin DirectBranches) => (f.pC = f.pC_end)
        /\ (f.branch \in DirectBranches) => (f.pC = f.pC_start)

\* C4 witness: a dense branch has written entries, and a vector counted as
\* empty by a phase-1 shortcut although both operands have entries has
\* been skipped
Phase2DenseAndSkipped ==
    /\ \E f \in filled : f.branch \in DirectBranches /\ Len(f.W) > 0
    /\ \E f \in filled :
          /\ f.skipped
          /\ Phase1Shortcut(GetVector(f.taskid, f.k))
          /\ GetVector(f.taskid, f.k).ajnz > 0
          /\ GetVector(f.taskid, f.k).bjnz > 0

\* the locations task taskid may write: in phase 1 its own pC if it is
\* fine and the Cp [k] of its vectors if it is coarse, in phase 2 the
\* places of Ci and Cx from its pC up to the pC of the next task
OwnLocations(taskid) ==
    IF phase = 1
    THEN IF TaskList[taskid].klast = -1 THEN {TaskField(taskid, "pC")}
         ELSE {<<"Cp", k>> : k \in VectorsOf(taskid)}
    ELSE {<<"Ci", q>> : q \in TaskList[taskid].pC..(TaskList[taskid + 1].pC - 1)}
         \cup
         {<<"Cx", q>> : q \in TaskList[taskid].pC..(TaskList[taskid + 1].pC - 1)}

\* C5: in each phase no two tasks write the same location, no task reads
\* a location another task writes, and every task writes only locations
\* of its own; the ranges of the tasks follow each other.
TasksAreDisjoint ==
    /\ \A t1 \in DOMAIN writes, t2 \in DOMAIN writes :
          t1 # t2 => writes[t1] \cap (writes[t2] \cup reads[t2]) = {}
    /\ phase \in {1, 2} => \A t \in DOMAIN writes : writes[t] \subseteq OwnLocations(t)
    /\ phase = 2 => \A t \in DOMAIN writes : TaskList[t].pC <= TaskList[t + 1].pC

\* C5 witness: in phase 2 two fine tasks of the same vector have both
\* written entries
TwoFineTasksWrote ==
    /\ phase = 2
    /\ \E t1 \in DOMAIN writes, t2 \in DOMAIN writes :
          /\ t1 # t2
          /\ TaskList[t1].klast = -1 /\ TaskList[t2].klast = -1
          /\ writes[t1] # {} /\ writes[t2] # {}

-----------------------------------------------------------------------------
(* Properties of GB_ewise *)

\* the entries of X by <<row, column>>, its pending tuples included
Logical(X) ==
    [t \in {IF X.is_csc THEN q ELSE Swap(q) :
               q \in DOMAIN X.e \cup DOMAIN X.pend} |->
        GB_Matrix_wait(X).e[IF X.is_csc THEN t ELSE Swap(t)]]

\* the transpose of the entries L, if tr
Flip(L, tr) ==
    IF tr THEN [t \in {Swap(u) : u \in DOMAIN L} |-> L[Swap(t)]] ELSE L

\* T = op (A, B), A and B the entries LA and LB by <<row, column>>: the
\* union of the patterns for eWiseAdd, else their intersection
Tentative(cl, LA, atype, LB, btype) ==
    [t \in (IF cl.eWiseAdd THEN DOMAIN LA \cup DOMAIN LB
            ELSE DOMAIN LA \cap DOMAIN LB) |->
        IF t \in DOMAIN LA /\ t \in DOMAIN LB
        THEN ApplyOp(cl.op, GB_cast(LA[t], cl.op.xtype, atype),
                     GB_cast(LB[t], cl.op.ytype, btype), t)
        ELSE IF t \in DOMAIN LA THEN GB_cast(LA[t], cl.op.ztype, atype)
        ELSE GB_cast(LB[t], cl.op.ztype, btype)]

\* the tentative result of the call cl on the matrices h
TentativeOf(cl, h) ==
    Tentative(cl, Flip(Logical(h[cl.A]), cl.A_transpose), h[cl.A].type,
              Flip(Logical(h[cl.B]), cl.B_transpose), h[cl.B].type)

\* the effective mask at t: an absent mask is true, a structural mask
\* is the presence of the entry, and the complement inverts it
Effective(cl, LM, t) ==
    (cl.M # "NULL" => (t \in DOMAIN LM /\ (cl.Mask_struct \/ Truth(LM[t]))))
    # cl.Mask_comp

\* C<M> = accum (C, Z) for the entries LC of C, LM of M and Z
Protocol(cl, LC, ctype, LM, Z) ==
    [t \in {u \in DOMAIN LC \cup DOMAIN Z :
               IF ~Effective(cl, LM, u)
               THEN ~cl.C_replace /\ u \in DOMAIN LC
               ELSE cl.accum.opcode # "NULL" \/ u \in DOMAIN Z} |->
        IF ~Effective(cl, LM, t) THEN LC[t]
        ELSE IF t \notin DOMAIN Z THEN LC[t]
        ELSE IF cl.accum.opcode = "NULL" \/ t \notin DOMAIN LC
        THEN GB_cast(Z[t], ctype, cl.op.ztype)
        ELSE GB_cast(<<cl.accum.opcode,
                       GB_cast(LC[t], cl.accum.xtype, ctype),
                       GB_cast(Z[t], cl.accum.ytype, cl.op.ztype)>>,
                     ctype, cl.accum.ztype)]

\* what the protocol makes of C for the call cl on the matrices h
ProtocolOf(cl, h) ==
    Protocol(cl, Logical(h[cl.C]), h[cl.C].type,
             Logical(Deref(h, cl.M)), TentativeOf(cl, h))

Returned(info) == pc = "done" /\ loc.info = info

\* C1: when GB_ewise returns with success, C holds in every cell what the
\* mask/accum protocol gives for the C, M and flags of the call and the
\* tentative result T = op (A, B): a cell with a false effective mask is
\* deleted if C_replace and kept otherwise; with a true one and no accum
\* it holds the entry of T if any; with accum, accum (c, t), t or c.
EwiseObeysProtocol ==
    Returned("GrB_SUCCESS")
        => Logical(heap[call.C]) = ProtocolOf(call, ghost.init)

\* a call with a mask and an accum returned through GB_accum_mask, having
\* kept an entry where the mask is false, accumulated another and
\* deleted none
EwiseMaskedAccum ==
    /\ Returned("GrB_SUCCESS")
    /\ ghost.path = "accum_mask"
    /\ call.M # "NULL" /\ call.accum.opcode # "NULL"
    /\ \E t \in DOMAIN Logical(heap[call.C]) :
          /\ ~Effective(call, Logical(ghost.init[call.M]), t)
          /\ Logical(heap[call.C])[t] = Logical(ghost.init[call.C])[t]
    /\ \E t \in DOMAIN Logical(heap[call.C]) :
          Logical(heap[call.C])[t][1] = call.accum.opcode

\* C2: with no mask, no accum and C_replace set, GB_ewise leaves C equal
\* to the tentative result T = op (A, B), as a set of (row, column, value),
\* whatever C held and whatever the formats of C, A and B and the two
\* transpose flags are.
EwiseReplacesByT ==
    (/\ Returned("GrB_SUCCESS")
     /\ call.M = "NULL" /\ ~call.Mask_comp
     /\ call.accum.opcode = "NULL"
     /\ call.C_replace)
        => Logical(heap[call.C])
           = [t \in DOMAIN TentativeOf(call, ghost.init) |->
                 GB_cast(TentativeOf(call, ghost.init)[t],
                         ghost.init[call.C].type, call.op.ztype)]

\* such a call on a C with entries that is not square, where T was built
\* in the format C does not have and one of A and B was transposed
EwiseReplacedAcross ==
    /\ Returned("GrB_SUCCESS")
    /\ call.M = "NULL" /\ ~call.Mask_comp /\ call.accum.opcode = "NULL"
    /\ call.C_replace
    /\ loc.T_is_csc # heap[call.C].is_csc
    /\ call.A_transpose # call.B_transpose
    /\ GB_NROWS(heap[call.C]) # GB_NCOLS(heap[call.C])
    /\ DOMAIN Logical(ghost.init[call.C]) # {}
    /\ DOMAIN Logical(heap[call.C]) # {}
    /\ DOMAIN Logical(heap[call.C]) # DOMAIN Logical(ghost.init[call.C])

\* the errors of the call cl on the matrices h: a faulty accum, the
\* domains of accum, op and the mask, the types of A and B for eWiseAdd,
\* and the dimensions of A, B and the mask against those of C
ErrorsOf(cl, h) ==
    LET Co == h[cl.C]
        Ao == h[cl.A]
        Bo == h[cl.B]
        Mo == Deref(h, cl.M)
        Rows(X, tr) == IF X.is_csc # tr THEN X.vlen ELSE X.vdim
        Cols(X, tr) == IF X.is_csc # tr THEN X.vdim ELSE X.vlen
    IN  (IF cl.accum.faulty THEN {"GrB_UNINITIALIZED_OBJECT"} ELSE {})
        \cup
        (IF \/ cl.accum.opcode \in {"FIRSTI", "FIRSTJ"}
            \/ /\ cl.accum.opcode # "NULL"
               /\ \/ ~GB_Type_compatible(Co.type, cl.accum.xtype)
                  \/ ~GB_Type_compatible(cl.op.ztype, cl.accum.ytype)
                  \/ ~GB_Type_compatible(Co.type, cl.accum.ztype)
            \/ cl.accum.opcode = "NULL"
               /\ ~GB_Type_compatible(Co.type, cl.op.ztype)
            \/ cl.M # "NULL" /\ Mo.type = "udt"
            \/ /\ cl.op.opcode \notin {"FIRSTI", "FIRSTJ"}
               /\ \/ ~GB_Type_compatible(cl.op.xtype, Ao.type)
                  \/ ~GB_Type_compatible(cl.op.ytype, Bo.type)
            \/ /\ cl.eWiseAdd
               /\ \/ ~GB_Type_compatible(Co.type, Ao.type)
                  \/ ~GB_Type_compatible(Co.type, Bo.type)
         THEN {"GrB_DOMAIN_MISMATCH"} ELSE {})
        \cup
        (IF \/ Rows(Ao, cl.A_transpose) # Rows(Co, FALSE)
            \/ Cols(Ao, cl.A_transpose) # Cols(Co, FALSE)
            \/ Rows(Bo, cl.B_transpose) # Rows(Co, FALSE)
            \/ Cols(Bo, cl.B_transpose) # Cols(Co, FALSE)
            \/ /\ cl.M # "NULL"
               /\ \/ Rows(Mo, FALSE) # Rows(Co, FALSE)
                  \/ Cols(Mo, FALSE) # Cols(Co, FALSE)
         THEN {"GrB_DIMENSION_MISMATCH"} ELSE {})

\* C6: a call with a faulty accum, a domain mismatch or a dimension
\* mismatch does not get past the check of the inputs: it returns one of
\* the error codes of its errors, with no pending work assembled, no
\* transpose or temporary made, and C, M, A and B as they were.
EwiseErrorsUpFront ==
    (ErrorsOf(call, ghost.init) # {} /\ pc # "check")
        => /\ pc = "done"
           /\ loc.info \in ErrorsOf(call, ghost.init)
           /\ ghost.waited = {} /\ ghost.made = {}
           /\ heap = ghost.init

\* a call with the wrong dimensions only once A is transposed has
\* returned the error while A, B and M have pending tuples
EwiseErrorWithPending ==
    /\ Returned("GrB_DIMENSION_MISMATCH")
    /\ call.A_transpose /\ call.M # "NULL"
    /\ GB_NROWS(heap[call.A]) = GB_NROWS(heap[call.C])
    /\ GB_NCOLS(heap[call.A]) = GB_NCOLS(heap[call.C])
    /\ \A x \in {call.A, call.B, call.M} : heap[x].pend # Empty

\* C8: no temporary is freed twice, and when GB_ewise returns every
\* temporary it made (MT, AT, BT, T) has been freed once, or T has been
\* handed over to C; none is left allocated.
EwiseFreesTemporaries ==
    /\ \A x \in Temporaries : ghost.frees[x] <= 1
    /\ pc = "done" =>
          \A x \in Temporaries :
             IF x \in ghost.made
             THEN \/ ghost.frees[x] = 1 /\ heap[x].status = "freed"
                  \/ /\ x = "T" /\ ghost.handed
                     /\ ghost.frees[x] = 0 /\ heap[x].status = "moved"
             ELSE ghost.frees[x] = 0 /\ heap[x].status = "none"

\* GB_add or GB_emult failed after MT and AT were made
EwiseFailedWithTransposes ==
    /\ Returned("GrB_OUT_OF_MEMORY")
    /\ call.fail = "T"
    /\ ghost.made = {"MT", "AT"}

\* C is also A, B or M
Aliased == "C" \in {call.A, call.B, call.M}

\* the same call with a copy of C for each input that is C
Disjoint(cl, h) ==
    [heap |-> [x \in DOMAIN h |->
                  IF x \in {"A", "B", "M"} /\ cl[x] = "C" THEN h["C"]
                  ELSE h[x]],
     call |-> [cl EXCEPT !.A = IF @ = "C" THEN "A" ELSE @,
                         !.B = IF @ = "C" THEN "B" ELSE @,
                         !.M = IF @ = "C" THEN "M" ELSE @]]

\* that call from its start to its return
DisjointRun(d) ==
    Run([heap |-> d.heap, call |-> d.call, loc |-> LocalsOf(d.call),
         pc |-> "check", ghost |-> GhostOf(d.heap)])

\* the call returned what the call d returns, with the same C
SameAs(r) ==
    /\ loc.info = r.loc.info
    /\ Logical(heap[call.C]) = Logical(r.heap[r.call.C])

\* a dense special case updated C
DenseUpdate == ghost.path \in {"dense_accum", "dense_noaccum"}

\* the entries of C are not those it had
Changed == Logical(heap[call.C]) # Logical(ghost.init[call.C])

\* C9 as stated: the call with C aliased gives the C of the call with a
\* disjoint copy, and whenever it has changed C (but to clear it for a
\* complemented empty mask) a temporary T held the result first and no
\* entry of an input that is C was read afterwards, also on the dense
\* paths.
EwiseAliasedViaTemporary ==
    (pc = "done" /\ Aliased)
        => /\ SameAs(DisjointRun(Disjoint(call, ghost.init)))
           /\ (Changed /\ ghost.path # "quick")
                 => ("T" \in ghost.made /\ ~ghost.stale)

\* C9: the call with C aliased to A, B or M returns what the call with a
\* disjoint copy returns, with the same C.  Outside the dense special
\* cases the entries of C change only after the temporary T was built
\* from A, B and M (or C is cleared for a complemented empty mask); the
\* dense special cases make no temporary and update C in place.
EwiseAliasedSameResult ==
    (pc = "done" /\ Aliased)
        => /\ SameAs(DisjointRun(Disjoint(call, ghost.init)))
           /\ IF DenseUpdate \/ ghost.path = "quick"
              THEN "T" \notin ghost.made
              ELSE Changed => ("T" \in ghost.made /\ ~ghost.stale)

\* C, which is also A, was updated in place by the dense C += A+B
EwiseAliasedDense ==
    /\ Returned("GrB_SUCCESS")
    /\ call.A = "C" /\ call.B # "C"
    /\ ghost.path = "dense_accum"
    /\ ghost.stale
    /\ heap[call.C] # ghost.init[call.C]


-----------------------------------------------------------------------------
(* Properties of the kernels that decline *)

\* the generic path of the function did the work
GenericRan == \E r \in ghost.ran : r[2] = "generic"

-----------------------------------------------------------------------------
(* Properties of GB_AxB_semiring_builtin *)

\* C10: once GB_AxB_semiring_builtin has renamed the operators of a
\* built-in semiring, for boolean x and y the multiply opcode is one of
\* FIRST, SECOND, LAND, LOR, LXOR, EQ, GT, LT, GE and LE and computes the z
\* of the multiply operator of the semiring for the x and y of the call;
\* when z is boolean the monoid opcode is one of LAND, LOR, LXOR and EQ
\* and computes the z of the monoid operator.
BooleanRenameSameZ ==
    pc = "flipxy" =>
        /\ loc.xycode = "bool" =>
              /\ loc.mult_opcode \in {"FIRST", "SECOND", "LAND", "LOR", "LXOR",
                                      "EQ", "GT", "LT", "GE", "LE"}
              /\ GB_BOOLEAN(loc.mult_opcode, call.x, call.y)
                    = GB_BOOLEAN(call.semiring.mult.opcode, call.x, call.y)
        /\ loc.zcode = "bool" =>
              /\ loc.add_opcode \in {"LAND", "LOR", "LXOR", "EQ"}
              /\ GB_BOOLEAN(loc.add_opcode, call.x, call.y)
                    = GB_BOOLEAN(call.semiring.add.opcode, call.x, call.y)

\* the multiply MINUS on booleans was renamed LXOR and the monoid PLUS was
\* renamed LOR, in a call with x false and y true
BooleanMinusRenamed ==
    /\ pc = "flipxy"
    /\ loc.xycode = "bool"
    /\ call.semiring.mult.opcode = "MINUS" /\ loc.mult_opcode = "LXOR"
    /\ call.semiring.add.opcode = "PLUS" /\ loc.add_opcode = "LOR"
    /\ call.x = 0 /\ call.y = 1


\* C11: when flipxy is true and GB_AxB_semiring_builtin returns true, the
\* multiply opcode g it returns and the multiply opcode f it had after the
\* boolean renaming satisfy g(a,b) = f(b,a) for the a and b of the call;
\* g is the partner of f when f is one of FIRST/SECOND, LT/GT, LE/GE,
\* ISLT/ISGT, ISLE/ISGE, DIV/RDIV and MINUS/RMINUS, and otherwise g is f,
\* which is then commutative.
FlipxySwapsArguments ==
    (pc = "done" /\ loc.builtin /\ call.flipxy) =>
        LET f == ghost.renamed
            g == loc.mult_opcode
            Pairs == {<<"FIRST", "SECOND">>, <<"LT", "GT">>, <<"LE", "GE">>,
                      <<"ISLT", "ISGT">>, <<"ISLE", "ISGE">>,
                      <<"DIV", "RDIV">>, <<"MINUS", "RMINUS">>}
        IN  /\ GB_BUILTIN(g, loc.xycode, call.a, call.b)
                  = GB_BUILTIN(f, loc.xycode, call.b, call.a)
            /\ \/ <<f, g>> \in Pairs
               \/ <<g, f>> \in Pairs
               \/ /\ g = f
                  /\ \A p \in Pairs : f \notin {p[1], p[2]}
                  /\ GB_BUILTIN(f, loc.xycode, call.a, call.b)
                        = GB_BUILTIN(f, loc.xycode, call.b, call.a)

\* the multiply DIV on int8 was returned as RDIV, in a call with flipxy
\* and a = 2, b = -1, where a/b is -2 and b/a is 0
FlippedDiv ==
    /\ pc = "done" /\ loc.builtin /\ call.flipxy
    /\ loc.xycode = "int8"
    /\ ghost.renamed = "DIV" /\ loc.mult_opcode = "RDIV"
    /\ call.a = 2 /\ call.b = -1
    /\ GB_BUILTIN("DIV", "int8", 2, -1) = -2
    /\ GB_BUILTIN("DIV", "int8", -1, 2) = 0


-----------------------------------------------------------------------------
(* Properties of GB_AxB_dot *)

\* the paths of GB_AxB_dot that computed C
DotRan == {r[2] : r \in {q \in ghost.ran : q[1] = "GB_AxB_dot"}}

\* the add and the multiply opcodes are built-in, every operand whose
\* values are used has the built-in type the multiply expects for its
\* position, and A and B have the same type when both are used
FitsKernel ==
    LET mult == call.semiring.mult
        pattern == PatternOnly(mult, call.flipxy)
        Fits(x, type) == pattern[x] \/ (heap[x].type = type
                                        /\ heap[x].type # "udt")
    IN  /\ call.semiring.add.opcode # "USER" /\ mult.opcode # "USER"
        /\ Fits("A", IF call.flipxy THEN mult.ytype ELSE mult.xtype)
        /\ Fits("B", IF call.flipxy THEN mult.xtype ELSE mult.ytype)
        /\ (~pattern.A /\ ~pattern.B) => heap["A"].type = heap["B"].type

\* the semiring was compiled with the library and A and B have the types
\* of the inputs of its multiply operator
FitsUser ==
    LET mult == call.semiring.mult
    IN  /\ call.semiring.object_kind = "GB_USER_COMPILED"
        /\ heap["A"].type = (IF call.flipxy THEN mult.ytype ELSE mult.xtype)
        /\ heap["B"].type = (IF call.flipxy THEN mult.xtype ELSE mult.ytype)

WithOtherValues(x) ==
    [heap |-> [ghost.init EXCEPT
                  ![x].e = [s \in DOMAIN @ |-> In("other", s[1], s[2],
                                                  ~Truth(@[s]))]],
     call |-> call,
     loc |-> [info |-> "none", mask_applied |-> "unset",
              A_is_pattern |-> FALSE, B_is_pattern |-> FALSE],
     pc |-> "GB_AxB_dot", ghost |-> GhostOf(ghost.init)]

Shared(i, j) ==
    {k \in 0..(heap["A"].vlen - 1) :
        <<k, i>> \in DOMAIN heap["A"].e /\ <<k, j>> \in DOMAIN heap["B"].e}

\* the mask, or its complement, permits (i,j)
Permitted(i, j) ==
    call.M # "NULL" =>
        ((<<i, j>> \in DOMAIN heap["M"].e /\ Truth(heap["M"].e[<<i, j>>]))
            # call.Mask_comp)

\* mult (A(k,i), B(k,j)), the arguments typecast to the inputs of mult,
\* and swapped with flipxy
Product(k, i, j) ==
    LET mult == call.semiring.mult
        x == IF call.flipxy THEN "B" ELSE "A"
        y == IF call.flipxy THEN "A" ELSE "B"
        Value(q, type) ==
            LET v == heap[q].e[<<k, IF q = "A" THEN i ELSE j>>]
            IN  IF heap[q].type = type THEN v ELSE <<"cast", type, v>>
    IN  CASE mult.opcode = "FIRST" -> Value(x, mult.xtype)
          [] mult.opcode = "SECOND" -> Value(y, mult.ytype)
          [] OTHER -> <<mult.opcode, Value(x, mult.xtype),
                        Value(y, mult.ytype)>>

-----------------------------------------------------------------------------
(* Properties of the inner loop of the dot product *)

\* the sum of the first n of the products, every one of them added
RECURSIVE SumOf(_, _, _)
SumOf(add, terms, n) ==
    IF n = 1 THEN terms[1]
    ELSE GB_BUILTIN(add.opcode, add.type, SumOf(add, terms, n - 1), terms[n])

\* add (t, v) = t for the terminal value t and every v the sum can take
Absorbing(add) ==
    \A v \in -128..127 :
        (add.type = "bool" => v \in {0, 1})
            => GB_BUILTIN(add.opcode, add.type, add.terminal[1], v)
                   = add.terminal[1]

\* the loop of the dot product was left
LoopLeft == pc = "done" /\ ghost.path \in {"terminal", "end"}

\* C15: when the loop is left, with a monoid whose terminal value absorbs
\* every other value, or with one that has no terminal value, cij is the
\* sum of all the products; without a terminal value the loop is only
\* left after the last product.
DotTerminalSameSum ==
    LoopLeft
        => /\ (call.add.terminal = <<>> \/ Absorbing(call.add))
                  => loc.cij = SumOf(call.add, call.terms, Len(call.terms))
           /\ call.add.terminal = <<>>
                  => ghost.path = "end" /\ loc.k = Len(call.terms)

\* the loop was left before the last product, cij being the terminal
\* value of a monoid that the terminal value absorbs
DotLeftEarly ==
    /\ LoopLeft
    /\ ghost.path = "terminal" /\ loc.k < Len(call.terms)
    /\ Absorbing(call.add)
    /\ \E n \in (loc.k + 1)..Len(call.terms) :
          call.terms[n] # call.add.terminal[1]

-----------------------------------------------------------------------------
(* Properties of the three kernels of a semiring *)

\* the three kernels were run on the same A, B and M
KernelsRan == pc = "done" /\ ghost.path = "kernels"

\* C16: run on the same semiring, A, B and mask, the Gustavson kernel, the
\* heap kernel and the dot kernel (on the transpose of A) give C the same
\* entries with the same values.
KernelsAgree ==
    KernelsRan => heap["Cgus"] = heap["Cheap"] /\ heap["Cheap"] = heap["Cdot"]

\* the kernels were run with a mask and gave a C(i,j) that is the sum of
\* two products, whose value is not the second product
KernelsSummedMasked ==
    /\ KernelsRan /\ call.M # "NULL"
    /\ \E t \in DOMAIN heap["Cgus"].e :
          /\ \A k \in 0..(Dim - 1) :
                <<t[1], k>> \in DOMAIN heap["A"].e
                    /\ <<k, t[2]>> \in DOMAIN heap["B"].e
          /\ heap["Cgus"].e[t]
                 # GB_BUILTIN(call.semiring.mult.opcode,
                              call.semiring.mult.type,
                              heap["A"].e[<<t[1], Dim - 1>>],
                              heap["B"].e[<<Dim - 1, t[2]>>])

-----------------------------------------------------------------------------
(* Properties of GxB_Matrix_import_CSC *)

\* GxB_Matrix_import_CSC has returned
ImportReturned == pc = "done" /\ "Ap" \in DOMAIN heap

ImportSucceeded == ImportReturned /\ loc.info = "GrB_SUCCESS"

\* the invariants of a sparse matrix on column pointers pd and row indices
\* id: p[0] = 0, p does not decrease, p[ncols] = nvals, the indices are
\* in [0, nrows) and increase strictly within a column
SparseInvariants(pd, id, nrows, ncols, nvals) ==
    /\ pd[1] = 0
    /\ \A j \in 1..ncols : pd[j] <= pd[j + 1]
    /\ pd[ncols + 1] = nvals
    /\ \A k \in 1..nvals : id[k] \in 0..(nrows - 1)
    /\ \A j \in 1..ncols :
          \A k \in (pd[j] + 1)..(pd[j + 1] - 1) : id[k] < id[k + 1]

\* the arrays the caller gave satisfy the invariants
ImportGiven ==
    SparseInvariants(ghost.init.p.data, ghost.init.i.data, call.nrows,
                     call.ncols, call.nvals)

\* the imported matrix satisfies the invariants
ImportHolds ==
    /\ heap.A.p # "NULL"
    /\ heap.A.nzmax > 0 => heap.A.i # "NULL"
    /\ SparseInvariants(heap[heap.A.p].data,
                        IF heap.A.i = "NULL" THEN <<>>
                        ELSE heap[heap.A.i].data,
                        heap.A.vlen, heap.A.nvec, heap.A.nzmax)

\* the imported matrix is nrows-by-ncols, by column, not hypersparse, with
\* plen = nvec = ncols and nzmax = nvals
ImportShape ==
    /\ heap.A.status = "live" /\ heap.A.is_csc /\ ~heap.A.is_hyper
    /\ heap.A.h = "NULL"
    /\ heap.A.vlen = call.nrows /\ heap.A.vdim = call.ncols
    /\ heap.A.plen = call.ncols /\ heap.A.nvec = call.ncols
    /\ heap.A.nzmax = call.nvals

Owned ==
    {b \in {"p", "i", "x"} : heap[b].allocated}
        = {heap.Ap, heap.Ai, heap.Ax, heap.A.p, heap.A.i, heap.A.x}
              \ {"NULL"}

\* C19: a successful import leaves NULL in the handles of the caller and
\* the matrix holds the very arrays, which are not changed; with
\* nvals = 0 the arrays i and x are freed instead.  A failed import
\* leaves NULL in the matrix handle and does not touch the handles and
\* the arrays of the caller.  At the call and at the return every
\* allocated array has exactly one owner and no freed array has one.
ImportMovesArrays ==
    "Ap" \in DOMAIN heap =>
        /\ Owned
        /\ \A b \in {"Ap", "Ai", "Ax"}, c \in {"Ap", "Ai", "Ax"} :
              (b # c /\ heap[b] # "NULL") => heap[b] # heap[c]
        /\ \A b \in {"Ap", "Ai", "Ax"} :
              heap[b] # "NULL"
                  => heap[b] \notin {heap.A.p, heap.A.i, heap.A.x}
        /\ ImportSucceeded =>
              /\ heap.Ap = "NULL" /\ heap.Ai = "NULL" /\ heap.Ax = "NULL"
              /\ heap.A.p = ghost.init.Ap /\ heap.p = ghost.init.p
              /\ call.nvals > 0 =>
                    /\ heap.A.i = ghost.init.Ai /\ heap.i = ghost.init.i
                    /\ heap.A.x = ghost.init.Ax /\ heap.x = ghost.init.x
              /\ call.nvals = 0 =>
                    /\ heap.A.i = "NULL" /\ heap.A.x = "NULL"
                    /\ ~heap.i.allocated /\ ~heap.x.allocated
        /\ (ImportReturned /\ ~ImportSucceeded) =>
              /\ call.A # "NULL" => heap.A.status = "NULL"
              /\ \A b \in {"Ap", "Ai", "Ax", "p", "i", "x"} :
                    heap[b] = ghost.init[b]

\* an empty matrix was imported and the arrays i and x of the caller were
\* freed
ImportFreedEmpty ==
    /\ ImportSucceeded /\ call.nvals = 0
    /\ ghost.init.i.allocated /\ ~heap.i.allocated
    /\ ghost.init.x.allocated /\ ~heap.x.allocated

-----------------------------------------------------------------------------
(* Properties of GxB_Matrix_export_CSC *)

\* the entries of X by <<row, column>>: those that are not zombies, and
\* its pending tuples
LogicalEntries(X) ==
    LET ByRowColumn(t) == IF X.is_csc THEN t ELSE Swap(t)
    IN  [t \in {ByRowColumn(u) :
                   u \in (DOMAIN X.e \ X.zombies) \cup DOMAIN X.pend} |->
            IF ByRowColumn(t) \in DOMAIN X.pend THEN X.pend[ByRowColumn(t)]
            ELSE X.e[ByRowColumn(t)]]

ExportSucceeded ==
    pc = "done" /\ ghost.path = "export" /\ loc.info = "GrB_SUCCESS"

\* C17: what a successful export gives is by column and sparse, without
\* zombies and pending tuples, not jumbled when the caller gave no
\* jumbled argument, and holds the entries the matrix had at the call.
ExportKeepsEntries ==
    ExportSucceeded =>
        /\ heap["out"].is_csc /\ heap["out"].sparsity = "sparse"
        /\ heap["out"].zombies = {} /\ heap["out"].pend = Empty
        /\ call.jumbled = "NULL" => ~heap["out"].jumbled
        /\ loc.jumbled = "false" => ~heap["out"].jumbled
        /\ LogicalEntries(heap["out"]) = LogicalEntries(ghost.init["A"])
        /\ heap["A"].status = "NULL"

\* a jumbled hypersparse matrix by row, with zombies and pending tuples,
\* was exported by a caller that gave no jumbled argument
ExportedAfterWork ==
    /\ ExportSucceeded /\ call.jumbled = "NULL"
    /\ ~ghost.init["A"].is_csc /\ ghost.init["A"].sparsity = "hyper"
    /\ ghost.init["A"].jumbled
    /\ ghost.init["A"].zombies # {} /\ ghost.init["A"].pend # Empty
    /\ LogicalEntries(heap["out"]) # Empty

-----------------------------------------------------------------------------
(* Properties of GB_shallow_op *)

ShallowOpSucceeded ==
    pc = "done" /\ ghost.path \in {"empty", "shallow", "apply"}

\* A has entries allocated, its type is the type of the input of the
\* operator it is bound to, and the operator is IDENTITY, ANY, FIRST (A, y)
\* or SECOND (x, A)
IdentityShape ==
    LET unary == call.op1.opcode # "NULL"
        op == IF unary THEN call.op1 ELSE call.op2
    IN  /\ heap["A"].nzmax > 0
        /\ heap["A"].type = (IF unary \/ ~call.binop_bind1st THEN op.xtype
                             ELSE op.ytype)
        /\ \/ op.opcode \in {"IDENTITY", "ANY"}
           \/ op.opcode = "FIRST" /\ ~call.binop_bind1st
           \/ op.opcode = "SECOND" /\ call.binop_bind1st

\* the values of C are op applied to the entries of A
ValuesAreOpOfA ==
    LET unary == call.op1.opcode # "NULL"
        op == IF unary THEN call.op1 ELSE call.op2
    IN  /\ Len(heap["C"].xdata) = Len(heap["A"].xdata)
        /\ \A k \in 1..Len(heap["A"].xdata) :
              heap["C"].xdata[k]
                  = GB_apply_op(op, unary, call.binop_bind1st,
                                heap["A"].xdata[k], heap["A"].type, k)

\* C20: C shares the value array of A exactly when A has entries
\* allocated, the type of A is that of the operator input A is bound to,
\* and the operator is IDENTITY, ANY, FIRST (A, y) or SECOND (x, A);
\* otherwise C has its own array.  In both cases the values of C are op
\* applied to the entries of A.
ShallowExactlyIdentity ==
    ShallowOpSucceeded =>
        /\ heap["C"].x_shallow <=> IdentityShape
        /\ heap["C"].x_shallow => heap["C"].x = heap["A"].x
        /\ (~heap["C"].x_shallow /\ heap["A"].nzmax > 0)
               => heap["C"].x = "Cx"
        /\ heap["C"].type = (IF call.op1.opcode # "NULL"
                             THEN call.op1.ztype ELSE call.op2.ztype)
        /\ ValuesAreOpOfA
        /\ heap["A"] = ghost.init["A"]

\* SECOND (x, A) gave a C that shares the values of A
SharedBySecond ==
    /\ ShallowOpSucceeded /\ heap["C"].x_shallow
    /\ call.op2.opcode = "SECOND" /\ call.binop_bind1st
    /\ heap["C"].x = "Ax" /\ Len(heap["C"].xdata) = 2

-----------------------------------------------------------------------------
(* The matrix check and the hyper-hash Y, in the test GB_mex_about7 *)

About7 == "YM" \in DOMAIN heap

\* the matrix in block a and its Y are as they were made
AsMade(a) ==
    /\ heap[a] = loc.valid[a]
    /\ heap[a].Y # "NULL" => heap[heap[a].Y] = loc.valid[heap[a].Y]

\* the statements of the test that call GxB_Matrix_fprint
Fprints ==
    {"47", "53", "59", "64", "70", "78", "81", "90", "99", "103", "106", "111"}

BorrowedYSurvives ==
    About7 =>
        /\ ghost.path # "stopped"
        /\ (loc.B # "NULL" /\ heap[loc.B].Y_shallow) =>
              /\ heap[loc.B].Y = heap[loc.A].Y
              /\ GB_matvec_check(heap, loc.B) = "GrB_SUCCESS"
        /\ pc \in {"103", "105"} =>
              /\ heap["B1"].status = "freed" /\ heap["YB"].status = "freed"
              /\ heap[heap[loc.A].Y].status = "live"
              /\ AsMade(loc.A)
              /\ GB_matvec_check(heap, loc.A) = "GrB_SUCCESS"

\* B was freed while it borrowed the Y of A, and A was checked after that
FreedTheBorrower ==
    /\ About7 /\ pc = "105" /\ loc.info = "GrB_SUCCESS"
    /\ heap["B1"].status = "freed" /\ heap["B1"].Y = "NULL"
    /\ heap["Y3"].status = "live"

-----------------------------------------------------------------------------
(* C += A on a dense C *)

\* GB_dense_accum_sparse or GB_subassign_23 has accumulated A into C
Accumulated ==
    pc = "done" /\ ghost.path = "accum" /\ loc.info = "GrB_SUCCESS"

\* C23: after GB_dense_accum_sparse and GB_subassign_23, C(i,j) is
\* accum (C(i,j), A(i,j) cast to the y type of accum) for every entry of
\* A, the other entries of C are as they were, and so is the pattern of C.
AccumIsCPlusA ==
    Accumulated =>
        /\ DOMAIN heap["C"].e = DOMAIN ghost.init["C"].e
        /\ heap["C"] = Accumulate(ghost.init["C"], ghost.init["A"],
                                  call.accum)

\* GB_dense_accum_sparse has accumulated an int8 A into an fp64 C with an
\* operator on fp64, and an entry of C is not accum (C(i,j), (fp64) A(i,j))
AccumOfMiscast ==
    /\ Accumulated
    /\ <<"GB_dense_accum_sparse", "generic">> \in ghost.ran
    /\ heap["A"].type # call.accum.ytype
    /\ DOMAIN heap["C"].e = DOMAIN ghost.init["C"].e
    /\ \E s \in DOMAIN heap["A"].e :
          heap["C"].e[s] # Accumulate(ghost.init["C"], ghost.init["A"],
                                      call.accum).e[s]
    /\ \A s \in DOMAIN heap["C"].e \ DOMAIN heap["A"].e :
          heap["C"].e[s] = ghost.init["C"].e[s]

\* the generic path of GB_dense_accum_sparse has run
DenseAccumGeneric ==
    pc = "done" /\ <<"GB_dense_accum_sparse", "generic">> \in ghost.ran

\* C27: the generic path of GB_dense_accum_sparse applies accum to A(i,j)
\* cast from the type of A to the y type of accum, the cast that
\* GB_subassign_23 and GB_AxB_dot select.
DenseAccumCastsAToY ==
    DenseAccumGeneric =>
        \A s \in DOMAIN ghost.init["A"].e :
           heap["C"].e[s] =
              ApplyOp(call.accum, ghost.init["C"].e[s],
                      GB_cast(ghost.init["A"].e[s], call.accum.ytype,
                              ghost.init["A"].type), s)

\* the generic path has applied accum to an entry of A cast from the y
\* type to the type of A
DenseAccumCastToA ==
    /\ DenseAccumGeneric
    /\ \E s \in DOMAIN ghost.init["A"].e :
          /\ heap["C"].e[s] =
                ApplyOp(call.accum, ghost.init["C"].e[s],
                        GB_cast(ghost.init["A"].e[s], ghost.init["A"].type,
                                call.accum.ytype), s)
          /\ heap["C"].e[s] #
                ApplyOp(call.accum, ghost.init["C"].e[s],
                        GB_cast(ghost.init["A"].e[s], call.accum.ytype,
                                ghost.init["A"].type), s)

-----------------------------------------------------------------------------
(* The transplant of T and the formats, in GB_ewise *)

\* GB_ewise has built T and has put it into C, one way or the other
EwiseFinished ==
    pc = "done" /\ ghost.path \in {"transplant", "accum_mask"}

\* C24: T is transplanted into C exactly when there is no accum, T is held
\* as C is, the mask is absent or was applied while T was built, and C is
\* replaced or has no entries; the C it leaves is the C of the mask/accum
\* protocol.
EwiseTransplantsExactly ==
    EwiseFinished =>
        /\ ghost.path = "transplant" <=>
              /\ call.accum.opcode = "NULL"
              /\ ghost.init[call.C].is_csc = loc.T_is_csc
              /\ call.M = "NULL" \/ loc.mask_applied
              /\ call.C_replace \/ DOMAIN Logical(ghost.init[call.C]) = {}
        /\ ghost.path = "transplant" =>
              Logical(heap[call.C]) = ProtocolOf(call, ghost.init)

\* T was built under a mask and transplanted into a C that had entries, one
\* of them where the mask is false
EwiseTransplantedMasked ==
    /\ EwiseFinished /\ ghost.path = "transplant"
    /\ call.M # "NULL" /\ loc.mask_applied /\ call.C_replace
    /\ \E t \in DOMAIN Logical(ghost.init[call.C]) :
          t \notin DOMAIN Logical(heap[call.C])
    /\ DOMAIN Logical(heap[call.C]) # {}

\* T is built and the transposed matrices are not freed yet
EwiseBuiltT == pc = "free" /\ "T" \in DOMAIN heap

\* the transpose flag of the operand x once its format is set against
\* that of C
AgainstC(x, flag) ==
    flag # (ghost.init[x].is_csc # ghost.init[call.C].is_csc)

\* C25: whatever the formats of C, A, B and M and the two transpose flags
\* are, T is op (A or A', B or B') as the call asks, under the mask if it
\* was applied; the flag of an operand not held as C is flipped, when both
\* flags are then set no operand is transposed and T is held the other way
\* than C, and the mask given to GB_add or GB_emult is held as T is.
EwiseTIsOpOfAB ==
    EwiseBuiltT =>
        LET At == AgainstC(call.A, call.A_transpose)
            Bt == AgainstC(call.B, call.B_transpose)
            Z == TentativeOf(call, ghost.init)
            LM == Logical(Deref(ghost.init, call.M))
        IN  /\ loc.A_transpose = (At /\ ~Bt)
            /\ loc.B_transpose = (Bt /\ ~At)
            /\ (loc.A1 = "AT") = loc.A_transpose
            /\ (loc.B1 = "BT") = loc.B_transpose
            /\ loc.T_is_csc = (ghost.init[call.C].is_csc # (At /\ Bt))
            /\ heap["T"].is_csc = loc.T_is_csc
            /\ loc.M1 # "NULL" => heap[loc.M1].is_csc = loc.T_is_csc
            /\ Logical(heap["T"])
               = [t \in {u \in DOMAIN Z :
                            loc.mask_applied => Effective(call, LM, u)} |->
                     Z[t]]

\* A and B are not held the same way and both flags were set once the
\* formats were taken into account: T is held the other way than C and
\* has an entry outside the diagonal
EwiseBothTransposed ==
    /\ EwiseBuiltT
    /\ AgainstC(call.A, call.A_transpose)
    /\ AgainstC(call.B, call.B_transpose)
    /\ ghost.init[call.A].is_csc # ghost.init[call.B].is_csc
    /\ loc.T_is_csc # ghost.init[call.C].is_csc
    /\ loc.A1 # "AT" /\ loc.B1 # "BT"
    /\ \E t \in DOMAIN Logical(heap["T"]) : t[1] # t[2]

\* GB_dense_accum_sparse or GB_subassign_23 has returned with success
AccumReturned ==
    /\ pc = "done" /\ loc.info = "GrB_SUCCESS"
    /\ ghost.path \in {"nothing", "accum"}

\* C is iso, which GB_subassign_23 alone looks at
IsoC == "iso" \in DOMAIN call /\ call.iso

\* the value v, FIRST (x, y) being x
RECURSIVE ValueOf(_)
ValueOf(v) == IF v[1] = "FIRST" THEN ValueOf(v[2]) ELSE v

\* C is, cell by cell, the value of accum (C(i,j), A(i,j)) over the entries
\* of A
EqualsAccumulated ==
    \A s \in DOMAIN heap["C"].e :
       heap["C"].e[s] = ValueOf(Accumulate(ghost.init["C"], ghost.init["A"],
                                           call.accum).e[s])

-----------------------------------------------------------------------------
(* The two ways of a flipxy *)

\* C28: for a built-in semiring and flipxy, the multiply operator of the
\* semiring applied to (bkj, aki), as the generic path of GB_AxB_dot calls
\* it, gives the value that the opcode returned by GB_AxB_semiring_builtin
\* gives applied to (aki, bkj), for the aki and bkj of the call.
FlipsAgree ==
    (pc = "done" /\ loc.builtin /\ call.flipxy) =>
        GB_BUILTIN(call.semiring.mult.opcode, loc.xycode, call.b, call.a)
        = GB_BUILTIN(loc.mult_opcode, loc.xycode, call.a, call.b)

\* the multiply RMINUS on int8 was returned as MINUS, in a call with
\* flipxy, aki = 2 and bkj = -1: both ways give 3, and -3 the other way
\* round
FlippedRminus ==
    /\ pc = "done" /\ loc.builtin /\ call.flipxy
    /\ loc.xycode = "int8"
    /\ call.semiring.mult.opcode = "RMINUS" /\ loc.mult_opcode = "MINUS"
    /\ call.a = 2 /\ call.b = -1
    /\ GB_BUILTIN("MINUS", "int8", 2, -1) = 3
    /\ GB_BUILTIN("RMINUS", "int8", 2, -1) = -3

-----------------------------------------------------------------------------
(* The order of the indices of C *)

\* the indices of the vector of X that starts at position p and ends
\* before position q are strictly increasing
Increasing(X, p, q) == \A n \in p..(q - 2) : X[n] < X[n + 1]

\* C29: the vectors of A, B and M having strictly increasing indices,
\* every vector or slice that a task fills gets its indices in strictly
\* increasing order at increasing positions, whatever the branch, and
\* when the template has finished every vector of C, the slices of the
\* fine tasks one after the other, has strictly increasing indices.
EmultNeverJumbled ==
    /\ \A k \in 0..(A.nvec - 1) : Increasing(A.i, A.p[k], A.p[k + 1])
    /\ \A k \in 0..(B.nvec - 1) : Increasing(B.i, B.p[k], B.p[k + 1])
    /\ \A f \in filled :
          \A n \in 1..(Len(f.W) - 1) :
             f.W[n].i < f.W[n + 1].i /\ f.W[n].at < f.W[n + 1].at
    /\ phase = 3 =>
          \A k \in 0..(Cnvec - 1) :
             /\ Cp[k] <= Cp[k + 1]
             /\ Increasing(Ci, Cp[k], Cp[k + 1])

\* the template has finished and two fine tasks have each filled a slice
\* of the same vector, one of them with two entries or more
EmultSlicesInOrder ==
    /\ phase = 3
    /\ \E f1 \in filled, f2 \in filled :
          /\ f1.k = f2.k /\ f1.taskid < f2.taskid
          /\ Len(f1.W) > 0 /\ Len(f2.W) > 0
          /\ f1.W[Len(f1.W)].i < f2.W[1].i
          /\ Len(f1.W) >= 2 \/ Len(f2.W) >= 2

-----------------------------------------------------------------------------
(* The arrays GB_shallow_op shares *)

ShallowOpReturned ==
    pc = "done" /\ ghost.path \in {"empty", "shallow", "apply", "fail"}
    /\ "C_is_csc" \in DOMAIN call

\* the arrays of the matrix X
ArraysOf(X) == {X.p, X.h, X.i, X.x} \ {"NULL"}

\* C30: on every path of GB_shallow_op A is as it was and no array of A
\* is freed, the out-of-memory paths that free C included; on an error C
\* is NULL; on success p and h of C, and i when A has space for entries,
\* are those of A and are shallow, and C has the vlen, vdim, plen, nvec,
\* nvec_nonempty and hypersparsity of A.
ShallowNeverFreesA ==
    ShallowOpReturned =>
        LET Co == heap["C"]
            Ao == ghost.init["A"]
        IN  /\ heap["A"] = Ao
            /\ \A r \in ghost.ran :
                  r[1] = "GB_FREE" => r[2] \notin ArraysOf(Ao)
            /\ loc.info # "GrB_SUCCESS" =>
                  loc.info = "GrB_OUT_OF_MEMORY" /\ Co.status = "NULL"
            /\ loc.info = "GrB_SUCCESS" =>
                  /\ Co.status = "live"
                  /\ Co.p = Ao.p /\ Co.p_shallow
                  /\ Co.h = Ao.h /\ Co.h_shallow
                  /\ Ao.nzmax > 0 => Co.i = Ao.i /\ Co.i_shallow
                  /\ Ao.nzmax = 0 => Co.i = "NULL" /\ Co.x = "NULL"
                  /\ Co.x \in ArraysOf(Ao) => Co.x_shallow
                  /\ Co.vlen = Ao.vlen /\ Co.vdim = Ao.vdim
                  /\ Co.plen = Ao.plen /\ Co.nvec = Ao.nvec
                  /\ Co.nvec_nonempty = Ao.nvec_nonempty
                  /\ Co.is_hyper = Ao.is_hyper

\* GB_apply_op has failed on a hypersparse A with entries: C was freed,
\* its own values with it, and nothing of A
ShallowFreedOwnValues ==
    /\ ShallowOpReturned /\ ghost.path = "fail" /\ call.fail = "apply"
    /\ heap["A"].h = "Ah" /\ heap["A"].nzmax > 0
    /\ ghost.ran = {<<"GB_FREE", "Cx">>}
    /\ heap["C"].status = "NULL"

====
